---------------------------- MODULE Spec2Model ----------------------------
(***************************************************************************)
(* A model of the index-calculation engine of the AI Virality Index ETL:   *)
(* the normalizer (etl/processing/normalizer.py), the smoother             *)
(* (etl/processing/smoother.py) and the daily batch                        *)
(* (etl/processing/index_calculator.py).                                   *)
(*                                                                         *)
(* Numbers.  The program computes in IEEE doubles and rounds every score   *)
(* it keeps: round(x, 2) for normalized and composite scores, round(x, 4)  *)
(* for EWMA values.  The model computes the same expressions in exact      *)
(* rational arithmetic and applies the same roundings (half to even).      *)
(* Every score is held as an integer number of ten-thousandths, so 100.0   *)
(* is 1000000 and a value rounded to 2 decimals is a multiple of 100.      *)
(* A float that may be non-finite is a record [k, v]: k = "fin" with the   *)
(* integer v, or k in {"nan", "pinf", "ninf"}.                             *)
(* Raw metric values are integers counted in halves (2 stands for 1.0), so *)
(* that the average of two sources of component S stays an integer.        *)
(* A value that lies exactly on a decimal rounding tie is rounded half to  *)
(* even here; the program rounds such a value by the binary value of the   *)
(* double that holds it.                                                   *)
(***************************************************************************)
EXTENDS Integers, Sequences, FiniteSets, TLC

(***************************************************************************)
(* Floats                                                                  *)
(***************************************************************************)
Fin(x) == [k |-> "fin", v |-> x]
NaN == [k |-> "nan", v |-> 0]
PInf == [k |-> "pinf", v |-> 0]
NInf == [k |-> "ninf", v |-> 0]
None == [k |-> "none", v |-> 0]

\* np.isfinite
IsFinite(f) == f.k = "fin"

\* a < b on floats: every comparison with NaN is false
FLt(a, b) ==
    CASE a.k = "nan" \/ b.k = "nan" -> FALSE
      [] a.k = "ninf" -> b.k # "ninf"
      [] a.k = "pinf" -> FALSE
      [] b.k = "pinf" -> TRUE
      [] b.k = "ninf" -> FALSE
      [] OTHER -> a.v < b.v

\* Python's min(a, b): a unless b < a.  max(a, b): a unless b > a.
PyMin(a, b) == IF FLt(b, a) THEN b ELSE a
PyMax(a, b) == IF FLt(a, b) THEN b ELSE a

\* a finite float multiplied by a positive integer
FScale(f, n) == IF IsFinite(f) THEN Fin(f.v * n) ELSE f

\* round(num / den) to the nearest integer, ties to even (den > 0)
RoundHalfEven(num, den) ==
    LET q == num \div den
        r == num - q * den
    IN  IF 2 * r < den THEN q
        ELSE IF 2 * r > den THEN q + 1
        ELSE IF q % 2 = 0 THEN q ELSE q + 1

Max2(a, b) == IF a >= b THEN a ELSE b
Min2(a, b) == IF a <= b THEN a ELSE b

RECURSIVE SeqSum(_)
SeqSum(s) == IF s = <<>> THEN 0 ELSE Head(s) + SeqSum(Tail(s))

\* s[a..b] as Python's s[a-1:b]; empty when a > b
Slice(s, a, b) == IF a > b THEN <<>> ELSE SubSeq(s, a, b)

Last(s) == s[Len(s)]

\* natural numbers beyond the range of the model checker's integers, as
\* sequences of base-10000 digits, lowest digit first, without leading zero
\* digits: <<>> is 0
RECURSIVE BigOf(_)
BigOf(n) == IF n = 0 THEN <<>> ELSE <<n % 10000>> \o BigOf(n \div 10000)

\* x + y + carry
RECURSIVE BigAdd(_, _, _)
BigAdd(x, y, carry) ==
    IF x = <<>> /\ y = <<>> THEN BigOf(carry)
    ELSE LET t == (IF x = <<>> THEN 0 ELSE Head(x))
                    + (IF y = <<>> THEN 0 ELSE Head(y)) + carry
         IN  <<t % 10000>> \o BigAdd(IF x = <<>> THEN x ELSE Tail(x),
                                     IF y = <<>> THEN y ELSE Tail(y),
                                     t \div 10000)

\* x - y - borrow, for x >= y + borrow
RECURSIVE BigSub(_, _, _)
BigSub(x, y, borrow) ==
    IF x = <<>> THEN <<>>
    ELSE LET t == Head(x) - (IF y = <<>> THEN 0 ELSE Head(y)) - borrow
             rest == BigSub(Tail(x), IF y = <<>> THEN y ELSE Tail(y),
                            IF t < 0 THEN 1 ELSE 0)
         IN  IF rest = <<>> /\ t = 0 THEN <<>>
             ELSE <<IF t < 0 THEN t + 10000 ELSE t>> \o rest

\* x * y: the sums of the digit products of each position, then the carries
BigMul(x, y) ==
    IF x = <<>> \/ y = <<>> THEN <<>>
    ELSE BigAdd([k \in 1..(Len(x) + Len(y) - 1) |->
                    SeqSum([i \in 1..k |->
                               IF i <= Len(x) /\ k + 1 - i <= Len(y)
                                 THEN x[i] * y[k + 1 - i] ELSE 0])],
                <<>>, 0)

\* -1, 0 or 1 as x is below, equal to or above y
RECURSIVE BigCmp(_, _)
BigCmp(x, y) ==
    IF Len(x) # Len(y) THEN (IF Len(x) < Len(y) THEN -1 ELSE 1)
    ELSE IF x = <<>> THEN 0
    ELSE IF x[Len(x)] # y[Len(y)] THEN (IF x[Len(x)] < y[Len(y)] THEN -1 ELSE 1)
    ELSE BigCmp(SubSeq(x, 1, Len(x) - 1), SubSeq(y, 1, Len(y) - 1))

(***************************************************************************)
(* normalizer.py                                                           *)
(***************************************************************************)
Hundred == 1000000          \* the score 100.0
Fifty == 500000             \* the score 50.0
MinHistory == 7             \* fewer finite values than this: min-max fallback
QuantileWindow == 90
QuantileLow == 5            \* q_low = 0.05, in hundredths
QuantileHigh == 95          \* q_high = 0.95, in hundredths
QDen == 100                 \* denominator of the quantile fractions

\* values[-window:]: the last `window` elements; for window <= 0 Python's
\* slice values[-window:] drops the first -window elements instead
WindowValues(values, window) ==
    IF window > 0
      THEN Slice(values, Max2(1, Len(values) - window + 1), Len(values))
      ELSE Slice(values, 1 - window, Len(values))

\* arr[np.isfinite(arr)], as integers
RECURSIVE FiniteValues(_)
FiniteValues(s) ==
    IF s = <<>> THEN <<>>
    ELSE IF IsFinite(Head(s)) THEN <<Head(s).v>> \o FiniteValues(Tail(s))
    ELSE FiniteValues(Tail(s))

RECURSIVE Insert(_, _)
Insert(x, s) ==
    IF s = <<>> THEN <<x>>
    ELSE IF x <= Head(s) THEN <<x>> \o s
    ELSE <<Head(s)>> \o Insert(x, Tail(s))

RECURSIVE Sorted(_)
Sorted(s) == IF s = <<>> THEN <<>> ELSE Insert(Head(s), Sorted(Tail(s)))

\* a quantile without interpolation: the element below the virtual index
QuantileLower(arr, qn) ==
    Sorted(arr)[(((Len(arr) - 1) * qn) \div QDen) + 1] * QDen

\* np.quantile(arr, q) with q = qn / QDen, times QDen: linear interpolation
\* at the virtual index (n - 1) * q of the sorted array
Quantile(arr, qn) ==
    LET srt == Sorted(arr)
        n == Len(arr)
        pos == (n - 1) * qn
        lo == pos \div QDen
        fr == pos % QDen
    IN  IF fr = 0 THEN srt[lo + 1] * QDen
        ELSE srt[lo + 1] * QDen + (srt[lo + 2] - srt[lo + 1]) * fr

\* the scaling without the clip and the clamp
WinsorScaleUnclipped(cv, lo, hi) ==
    IF IsFinite(cv) THEN 100 * RoundHalfEven(10000 * (cv.v - lo), hi - lo)
    ELSE IF cv.k = "ninf" THEN 0 - Hundred ELSE 2 * Hundred

\* clip current_value to [lo, hi], scale to [0, 100], clamp, round to 2
\* decimals; lo < hi are integers in the unit of `cv`
WinsorScale(cv, lo, hi) ==
    LET clipped == PyMax(Fin(lo), PyMin(cv, Fin(hi)))
        num == 100 * (clipped.v - lo)
        den == hi - lo
    IN  IF num <= 0 THEN 0
        ELSE IF num >= 100 * den THEN Hundred
        ELSE 100 * RoundHalfEven(100 * num, den)

\* a fallback for which identical values are always neutral
MinMaxNormalizeNeutral(arr, cv) ==
    LET srt == Sorted(arr)
        vmin == srt[1]
        vmax == srt[Len(srt)]
    IN  IF vmax = vmin THEN Fifty ELSE WinsorScale(cv, vmin, vmax)

\* _minmax_normalize(arr, current_value), arr a non-empty sequence of integers
MinMaxNormalize(arr, cv) ==
    LET srt == Sorted(arr)
        vmin == srt[1]
        vmax == srt[Len(srt)]
    IN  IF vmax = vmin
          THEN IF vmax = 0 THEN 0 ELSE Fifty
          ELSE WinsorScale(cv, vmin, vmax)

\* quantile_normalize(values, current_value, window, q_low, q_high)
QuantileNormalize(values, current_value, window, qlow, qhigh) ==
    IF values = <<>> THEN Fifty
    ELSE
      LET cv == IF current_value = None THEN Last(values) ELSE current_value
          arr == FiniteValues(WindowValues(values, window))
      IN  IF Len(arr) = 0 THEN Fifty
          ELSE IF Len(arr) < MinHistory THEN MinMaxNormalize(arr, cv)
          ELSE
            LET q05 == Quantile(arr, qlow)
                q95 == Quantile(arr, qhigh)
            IN  IF q95 = q05
                  THEN IF q95 = 0 THEN 0 ELSE Fifty
                  ELSE WinsorScale(FScale(cv, QDen), q05, q95)

\* normalize_batch(values_by_model, window): a function over its domain
NormalizeBatch(values_by_model, window) ==
    [slug \in DOMAIN values_by_model |->
        IF values_by_model[slug] = <<>> THEN Fifty
        ELSE QuantileNormalize(values_by_model[slug], None, window,
                               QuantileLow, QuantileHigh)]

\* a cross-model scaling over the full range 0 to 100
CrossModelNormalizeFullRange(values_by_model) ==
    LET ids == DOMAIN values_by_model
        nonzero == {k \in ids : values_by_model[k] > 0}
        vmin == CHOOSE x \in {values_by_model[k] : k \in nonzero} :
                    \A k \in nonzero : x <= values_by_model[k]
        vmax == CHOOSE x \in {values_by_model[k] : k \in nonzero} :
                    \A k \in nonzero : x >= values_by_model[k]
    IN  IF nonzero = {} THEN [k \in ids |-> 0]
        ELSE IF vmax = vmin THEN [k \in ids |-> IF k \in nonzero THEN Fifty ELSE 0]
        ELSE [k \in ids |-> IF k \in nonzero
                               THEN 100 * RoundHalfEven(10000 * (values_by_model[k] - vmin),
                                                        vmax - vmin)
                               ELSE 0]

\* cross_model_normalize(values_by_model): values_by_model a function from
\* model ids to finite raw values; the result is a function on the same ids
CrossModelNormalize(values_by_model) ==
    LET ids == DOMAIN values_by_model
        nonzero == {k \in ids : values_by_model[k] > 0}
        zero_models == {k \in ids : values_by_model[k] <= 0}
        vmin == CHOOSE x \in {values_by_model[k] : k \in nonzero} :
                    \A k \in nonzero : x <= values_by_model[k]
        vmax == CHOOSE x \in {values_by_model[k] : k \in nonzero} :
                    \A k \in nonzero : x >= values_by_model[k]
        Scaled(v) ==
            LET num == 10 * (vmax - vmin) + 90 * (v - vmin)
                den == vmax - vmin
            IN  IF num <= 0 THEN 0
                ELSE IF num >= 100 * den THEN Hundred
                ELSE 100 * RoundHalfEven(100 * num, den)
    IN  IF nonzero = {} THEN [k \in ids |-> 0]
        ELSE IF Cardinality(nonzero) = 1
          THEN [k \in ids |-> IF k \in nonzero THEN Fifty ELSE 0]
        ELSE IF vmax = vmin
          THEN [k \in ids |-> IF k \in nonzero THEN Fifty ELSE 0]
        ELSE [k \in ids |-> IF k \in zero_models THEN 0
                            ELSE Scaled(values_by_model[k])]

(***************************************************************************)
(* smoother.py                                                             *)
(***************************************************************************)
\* round(x, 4) of a float held in units of 1 / (10000 * unit)
Round4(f, unit) == IF IsFinite(f) THEN Fin(unit * RoundHalfEven(f.v, unit)) ELSE f

\* a blend with the two weights exchanged
BlendSwapped(prev, v, alpha) ==
    IF IsFinite(prev)
      THEN [k |-> "frac", v |-> (100 - alpha) * v.v + alpha * prev.v]
      ELSE prev

\* alpha * v + (1 - alpha) * prev for a finite v, alpha in hundredths
Blend(prev, v, alpha) ==
    IF IsFinite(prev)
      THEN [k |-> "frac", v |-> alpha * v.v + (100 - alpha) * prev.v]
      ELSE IF alpha = 100 THEN NaN ELSE prev

\* one iteration of the loop of ewma: the element appended to result
EwmaStep(prev, v, alpha, unit) ==
    IF IsFinite(v)
      THEN LET b == Blend(prev, v, alpha)
           IN  IF b.k = "frac" THEN Fin(unit * RoundHalfEven(b.v, 100 * unit))
               ELSE b
      ELSE Round4(prev, unit)

RECURSIVE EwmaLoop(_, _, _, _, _)
EwmaLoop(values, alpha, unit, i, result) ==
    IF i > Len(values) THEN result
    ELSE EwmaLoop(values, alpha, unit, i + 1,
                  Append(result, EwmaStep(Last(result), values[i], alpha, unit)))

\* the alpha check of ewma, alpha in hundredths
AlphaValid(alpha) == 0 < alpha /\ alpha <= 100

\* ewma(values, alpha) for a valid alpha: values are floats in units of
\* 1 / (10000 * unit), alpha is in hundredths
Ewma(values, alpha, unit) ==
    IF values = <<>> THEN <<>>
    ELSE EwmaLoop(values, alpha, unit, 2, <<values[1]>>)

\* ewma(values, alpha) as called: the empty input is answered before alpha
\* is looked at, then an alpha outside (0, 1] raises ValueError
EwmaCall(values, alpha, unit) ==
    IF values = <<>> THEN [raised |-> FALSE, result |-> <<>>]
    ELSE IF ~AlphaValid(alpha) THEN [raised |-> TRUE, result |-> <<>>]
    ELSE [raised |-> FALSE, result |-> Ewma(values, alpha, unit)]

\* a single step that lets a non-finite value through
EwmaSingleNoCarry(previous_ewma, current_value, alpha, unit) ==
    IF ~IsFinite(current_value) THEN current_value
    ELSE LET b == Blend(previous_ewma, current_value, alpha)
         IN  IF b.k = "frac" THEN Fin(unit * RoundHalfEven(b.v, 100 * unit))
             ELSE b

\* ewma_single(previous_ewma, current_value, alpha)
EwmaSingle(previous_ewma, current_value, alpha, unit) ==
    IF ~IsFinite(current_value) THEN previous_ewma
    ELSE LET b == Blend(previous_ewma, current_value, alpha)
         IN  IF b.k = "frac" THEN Fin(unit * RoundHalfEven(b.v, 100 * unit))
             ELSE b

\* moving_average(values, window): [raised, result]; values are whole numbers,
\* each mean is returned in ten-thousandths, rounded to 4 decimals
MovingAverage(values, window) ==
    IF values = <<>> THEN [raised |-> FALSE, result |-> <<>>]
    ELSE IF window < 1 THEN [raised |-> TRUE, result |-> <<>>]
    ELSE [raised |-> FALSE,
          result |-> [i \in 1..Len(values) |->
              LET start == Max2(1, i - window + 1)
                  valid == FiniteValues(Slice(values, start, i))
              IN  IF Len(valid) > 0
                    THEN RoundHalfEven(10000 * SeqSum(valid), Len(valid))
                    ELSE 0]]

(***************************************************************************)
(* config.py and the pure functions of index_calculator.py                 *)
(***************************************************************************)
Components == <<"T", "S", "G", "N", "D", "M">>
CompSet == {Components[i] : i \in 1..Len(Components)}

\* weights in hundredths
WEIGHTS_TRADE ==
    [T |-> 18, S |-> 28, G |-> 15, N |-> 12, D |-> 15, M |-> 12]
WEIGHTS_CONTENT ==
    [T |-> 25, S |-> 35, G |-> 5, N |-> 20, D |-> 5, M |-> 10]
ALPHA_TRADE == 35
ALPHA_CONTENT == 25

RECURSIVE WeightedSumFrom(_, _, _)
WeightedSumFrom(weights, smoothed, i) ==
    IF i > Len(Components) THEN 0
    ELSE weights[Components[i]] * smoothed[Components[i]]
         + WeightedSumFrom(weights, smoothed, i + 1)

\* a composite that adds the smoothed values up, unweighted and unclamped
CompositeScoreUnweighted(weights, smoothed) ==
    100 * RoundHalfEven(WeightedSumFrom([c \in CompSet |-> 100], smoothed, 1), 100 * 100)

\* round(max(0.0, min(100.0, sum(weights[c] * smoothed[c]))), 2)
CompositeScore(weights, smoothed) ==
    LET num == WeightedSumFrom(weights, smoothed, 1)     \* 100 * the sum
    IN  IF num <= 0 THEN 0
        ELSE IF num >= 100 * Hundred THEN Hundred
        ELSE 100 * RoundHalfEven(num, 100 * 100)

\* the rolling re-normalization of calculate_index: element i is history[i]
\* normalized against the window of (up to) 90 values ending at i
AllNormalized(history) ==
    [i \in 1..Len(history) |->
        QuantileNormalize(Slice(history, Max2(1, i - (QuantileWindow - 1)), i),
                          history[i], QuantileWindow, QuantileLow, QuantileHigh)]

\* the neutral default that absence of data had before
EmptyComponentNeutral == [raw |-> 0, normalized |-> Fifty, smoothed |-> Fifty]

\* what calculate_index gives one component with no history
EmptyComponent == [raw |-> 0, normalized |-> 0, smoothed |-> 0]
\* the body of the component loop of calculate_index for one component:
\* history is the combined history, a sequence of finite raw values
ComponentOf(history, alpha) ==
    IF history = <<>> THEN EmptyComponent
    ELSE
      LET fh == [i \in 1..Len(history) |-> Fin(history[i])]
          normalized == QuantileNormalize(fh, None, QuantileWindow,
                                          QuantileLow, QuantileHigh)
          all_normalized == AllNormalized(fh)
          smoothed_series ==
              Ewma([i \in 1..Len(history) |-> Fin(all_normalized[i])], alpha, 1)
      IN  [raw |-> Last(history),
           normalized |-> normalized,
           smoothed |-> IF Len(history) > 1 THEN Last(smoothed_series).v
                        ELSE normalized]

\* calculate_index(model_id, calc_date, mode) given the combined history of
\* every component of the model: hist is a function on the components
CalculateIndex(hist, mode) ==
    LET weights == IF mode = "trade" THEN WEIGHTS_TRADE ELSE WEIGHTS_CONTENT
        alpha == IF mode = "trade" THEN ALPHA_TRADE ELSE ALPHA_CONTENT
        comp == [c \in CompSet |-> ComponentOf(hist[c], alpha)]
        smoothed == [c \in CompSet |-> comp[c].smoothed]
    IN  [vi_score |-> CompositeScore(weights, smoothed),
         components_raw |-> [c \in CompSet |-> comp[c].raw],
         components_normalized |-> [c \in CompSet |-> comp[c].normalized],
         components_smoothed |-> smoothed]

\* round(x, 2) of a score held in ten-thousandths
Round2(x) == 100 * RoundHalfEven(x, 100)

\* momentum over a lag of 6 positions
CalculateMomentumLag6(scores) ==
    LET n == Len(scores)
    IN  IF n < 8 THEN [delta7 |-> 0, acceleration |-> 0]
        ELSE
          LET delta7 == scores[n] - scores[n - 6]
          IN  IF n < 15 THEN [delta7 |-> Round2(delta7), acceleration |-> 0]
              ELSE
                LET delta7_prev == scores[n - 6] - scores[n - 12]
                IN  [delta7 |-> Round2(delta7),
                     acceleration |-> Round2(delta7 - delta7_prev)]

\* calculate_momentum(scores)
CalculateMomentum(scores) ==
    LET n == Len(scores)
    IN  IF n < 8 THEN [delta7 |-> 0, acceleration |-> 0]
        ELSE
          LET delta7 == scores[n] - scores[n - 7]
          IN  IF n < 15 THEN [delta7 |-> Round2(delta7), acceleration |-> 0]
              ELSE
                LET delta7_prev == scores[n - 7] - scores[n - 14]
                IN  [delta7 |-> Round2(delta7),
                     acceleration |-> Round2(delta7 - delta7_prev)]

RECURSIVE Gcd(_, _)
Gcd(a, b) == IF b = 0 THEN a ELSE Gcd(b, a % b)

\* a momentum scaled without the clamp to [-max_abs, max_abs]
NormalizeMomentumUnclamped(value, max_abs) ==
    LET g == Gcd(50, max_abs)
    IN  [num |-> Fifty * (max_abs \div g) + value * (50 \div g),
         den |-> max_abs \div g]

\* _normalize_momentum(value, max_abs) as the fraction num / den:
\* 50 + (clamped / max_abs) * 50, max_abs a whole number
NormalizeMomentum(value, max_abs) ==
    LET clamped == Max2(0 - max_abs * 10000, Min2(value, max_abs * 10000))
        g == Gcd(50, max_abs)
    IN  [num |-> Fifty * (max_abs \div g) + clamped * (50 \div g),
         den |-> max_abs \div g]

\* calculate_signal_trade(vi_trade, delta7, acceleration)
CalculateSignalTrade(vi_trade, delta7, acceleration) ==
    LET nd == NormalizeMomentum(delta7, 50)
        na == NormalizeMomentum(acceleration, 30)
        den == 100 * nd.den * na.den
        num == 60 * vi_trade * nd.den * na.den + 25 * nd.num * na.den
               + 15 * na.num * nd.den
    IN  IF num <= 0 THEN 0
        ELSE IF num >= Hundred * den THEN Hundred
        ELSE 100 * RoundHalfEven(num, den * 100)

\* calculate_heat_content(vi_content, delta7)
CalculateHeatContent(vi_content, delta7) ==
    LET nd == NormalizeMomentum(delta7, 50)
        den == 100 * nd.den
        num == 50 * vi_content * nd.den + 50 * nd.num
    IN  IF num <= 0 THEN 0
        ELSE IF num >= Hundred * den THEN Hundred
        ELSE 100 * RoundHalfEven(num, den * 100)

\* round(num / den, 2) of a score in ten-thousandths as a double computes it:
\* a value halfway between two hundredths is held by a double slightly above
\* or slightly below, so it rounds either way
Round2Outcomes(num, den) ==
    LET q == num \div (100 * den)
        r == num - q * 100 * den
    IN  IF 2 * r = 100 * den THEN {100 * q, 100 * (q + 1)}
        ELSE {100 * RoundHalfEven(num, 100 * den)}

\* the values calculate_signal_trade(vi_trade, delta7, acceleration) can return
SignalTradeOutcomes(vi_trade, delta7, acceleration) ==
    LET nd == NormalizeMomentum(delta7, 50)
        na == NormalizeMomentum(acceleration, 30)
        den == 100 * nd.den * na.den
        num == 60 * vi_trade * nd.den * na.den + 25 * nd.num * na.den
               + 15 * na.num * nd.den
    IN  IF num <= 0 THEN {0}
        ELSE IF num >= Hundred * den THEN {Hundred}
        ELSE Round2Outcomes(num, den)

\* the values calculate_heat_content(vi_content, delta7) can return
HeatContentOutcomes(vi_content, delta7) ==
    LET nd == NormalizeMomentum(delta7, 50)
        den == 100 * nd.den
        num == 50 * vi_content * nd.den + 50 * nd.num
    IN  IF num <= 0 THEN {0}
        ELSE IF num >= Hundred * den THEN {Hundred}
        ELSE Round2Outcomes(num, den)

(***************************************************************************)
(* The store: the tables raw_metrics, component_scores and daily_scores.   *)
(* Dates are whole days relative to date.today(), which is day 0.          *)
(***************************************************************************)
NumModels == 2              \* active models, in slug order: 1..NumModels
MaxFaults == 2              \* exceptions injected in one behaviour
MaxRuns == 2                \* runs of the daily batch in one behaviour

ModelIds == 1..NumModels
Today == 0                  \* date.today(): dates are relative to it
RawDays == 90               \* days=90 of _fetch_component_history
ScoreDays == 30             \* days=30 of _get_daily_scores_history

\* COMPONENT_SOURCES: the (source, metric_name) series of every component
COMPONENT_SOURCES ==
    [T |-> <<"trends/interest">>,
     S |-> <<"youtube/total_views_24h", "hackernews/stories_24h">>,
     G |-> <<"github/stars_delta_1d", "github/forks_delta_1d">>,
     N |-> <<"gdelt/article_count">>,
     D |-> <<"devadoption/downloads_daily">>,
     M |-> <<"wikipedia/pageviews_7d">>]

SeriesSet == UNION {{COMPONENT_SOURCES[c][i] : i \in 1..Len(COMPONENT_SOURCES[c])} : c \in CompSet}

\* rows of one series on the n days up to today, oldest first; the value of
\* the day k days ago is f[k]
Rows(n, f) == [i \in 1..n |-> [date |-> Today - (n - i), metric_value |-> f[n - i]]]
NoRows == <<>>

\* The raw histories a model may have when the batch runs.  Values are counts
\* (whole numbers), held in halves.
\*   1  a model with no data at all
\*   2  a model tracked for three days: every series is short
\*   3  an established model: eight or more days on most series, none on
\*      hackernews, a flat news count, no downloads yet (all zero)
\*   4  an established model with falling interest and a short download series
RawProfiles ==
    << [x \in SeriesSet |-> NoRows],
       [x \in SeriesSet |->
          CASE x = "trends/interest" -> Rows(3, [k \in 0..2 |-> 20 - 6 * k])
            [] x = "youtube/total_views_24h" -> Rows(2, [k \in 0..1 |-> 24 - 8 * k])
            [] x = "hackernews/stories_24h" ->
                 <<[date |-> Today - 2, metric_value |-> 4],
                   [date |-> Today, metric_value |-> 8]>>
            [] x = "github/stars_delta_1d" -> Rows(1, [k \in 0..0 |-> 12])
            [] x = "github/forks_delta_1d" -> Rows(1, [k \in 0..0 |-> 4])
            [] x = "gdelt/article_count" -> NoRows
            [] x = "devadoption/downloads_daily" -> Rows(2, [k \in 0..1 |-> 0])
            [] OTHER -> Rows(1, [k \in 0..0 |-> 40])],
       [x \in SeriesSet |->
          CASE x = "trends/interest" -> Rows(8, [k \in 0..7 |-> 60 - 4 * k])
            [] x = "youtube/total_views_24h" -> Rows(9, [k \in 0..8 |-> 10 + 2 * ((k * k) % 7)])
            [] x = "hackernews/stories_24h" -> NoRows
            [] x = "github/stars_delta_1d" -> Rows(7, [k \in 0..6 |-> 6 + 2 * (k % 3)])
            [] x = "github/forks_delta_1d" -> Rows(5, [k \in 0..4 |-> 2 * k])
            [] x = "gdelt/article_count" -> Rows(8, [k \in 0..7 |-> 10])
            [] x = "devadoption/downloads_daily" -> Rows(8, [k \in 0..7 |-> 0])
            [] OTHER -> Rows(8, [k \in 0..7 |-> IF k = 0 THEN 400 ELSE 30 + 2 * k])],
       [x \in SeriesSet |->
          CASE x = "trends/interest" -> Rows(8, [k \in 0..7 |-> 10 + 6 * k])
            [] x = "youtube/total_views_24h" -> Rows(7, [k \in 0..6 |-> 30 - 4 * k])
            [] x = "hackernews/stories_24h" -> Rows(7, [k \in 0..6 |-> 2 + 2 * k])
            [] x = "github/stars_delta_1d" -> NoRows
            [] x = "github/forks_delta_1d" -> NoRows
            [] x = "gdelt/article_count" -> Rows(10, [k \in 0..9 |-> 2 * ((3 * k) % 5)])
            [] x = "devadoption/downloads_daily" -> Rows(3, [k \in 0..2 |-> 100 + 20 * k])
            [] OTHER -> Rows(1, [k \in 0..0 |-> 0])] >>

\* get_raw_metrics(model_id, source, metric_name, days): the rows of the
\* series dated today - days or later, in date order
GetRawMetrics(rm, model_id, series, days) ==
    SelectSeq(rm[model_id][series], LAMBDA r : r.date >= Today - days)

RECURSIVE SortedDates(_)
SortedDates(ds) ==
    IF ds = {} THEN <<>>
    ELSE LET d == CHOOSE x \in ds : \A y \in ds : x <= y
         IN  <<d>> \o SortedDates(ds \ {d})

\* _fetch_component_history(model_id, component, days): the combined history
FetchComponentHistory(rm, model_id, component, days) ==
    LET sources == COMPONENT_SOURCES[component]
        rowsOf(i) == GetRawMetrics(rm, model_id, sources[i], days)
    IN  IF Len(sources) = 1
          THEN [i \in 1..Len(rowsOf(1)) |-> rowsOf(1)[i].metric_value]
          ELSE
            LET dates == UNION {{rowsOf(i)[j].date : j \in 1..Len(rowsOf(i))} :
                                i \in 1..Len(sources)}
                sorted_dates == SortedDates(dates)
                \* date_values[d]: the values of day d, one per source that has it
                valuesOn(d) ==
                    LET pick(i) == SelectSeq(rowsOf(i), LAMBDA r : r.date = d)
                    IN  [j \in 1..Len(pick(1) \o pick(2)) |->
                            (pick(1) \o pick(2))[j].metric_value]
            IN  [i \in 1..Len(sorted_dates) |->
                    IF component = "G"
                      THEN SeqSum(valuesOn(sorted_dates[i]))
                      ELSE SeqSum(valuesOn(sorted_dates[i]))
                           \div Len(valuesOn(sorted_dates[i]))]

\* the combined histories of all components of a model
Histories(rm, model_id) ==
    [c \in CompSet |-> FetchComponentHistory(rm, model_id, c, RawDays)]

\* The raw histories never change while the batch runs, and a model has one
\* of the histories of RawProfiles: the combined histories and the phase 1
\* results of each are evaluated once, here, and looked up by the steps.
ProfileOf(series) == CHOOSE p \in 1..Len(RawProfiles) : RawProfiles[p] = series

HistoryTable ==
    [p \in 1..Len(RawProfiles) |-> Histories([m \in {0} |-> RawProfiles[p]], 0)]

\* the combined histories of a model, as _fetch_component_history reads them
HistoriesOf(rm, model_id) == HistoryTable[ProfileOf(rm[model_id])]

\* _needs_cross_model(model_id, component)
NeedsCrossModel(rm, model_id, component) ==
    Len(HistoriesOf(rm, model_id)[component]) < MinHistory

IndexTable ==
    [p \in 1..Len(RawProfiles) |->
        [mode \in {"trade", "content"} |-> CalculateIndex(HistoryTable[p], mode)]]

\* calculate_index(model_id, calc_date, mode) on the stored raw metrics
CalculateIndexOf(rm, model_id, mode) == IndexTable[ProfileOf(rm[model_id])][mode]

(***************************************************************************)
(* run_daily_calculation as a process.  One step is one iteration of one   *)
(* of its loops, so that the order of the phases can be stated.            *)
(***************************************************************************)
VARIABLES
    raw_metrics,        \* [model -> [series -> rows in date order]]
    component_scores,   \* the rows of the table, keyed (model_id, date, component)
    daily_scores,       \* the rows of the table, keyed (model_id, date)
    pc,                 \* "idle", "phase1", "phase2", "phase3", "done", "raised"
    runs,               \* runs started so far
    faults,             \* exceptions injected so far
    models,             \* the list get_all_models() returned to this run
    idx,                \* the position of the loop over models
    phase1_results,     \* model_id -> the phase 1 result or error
    sparse_components,
    cross_scores,       \* component -> (model_id -> score)
    results,            \* the details list
    summary,            \* what the run returned
    raised,             \* history: the models an exception was raised for in this run
    overridden,         \* history: the <<model, component>> overwritten by a cross-model score
    upserts,            \* history: <<run, row>> for every daily_scores row upserted
    norm_in,            \* the arguments of a call of quantile_normalize
    norm_pc,            \* "start", "normalized", "batched", "averaged"
    norm_out,           \* what quantile_normalize returned
    batch_out,          \* what normalize_batch returned
    ma_out,             \* what moving_average returned
    call_in,            \* the function called and its arguments
    call_pc,            \* "start", "called", "stepping", "stepped"
    call_out,           \* what the call returned
    sig_store,          \* per model, what the detectors' queries read
    signals,            \* the signals table
    sig_pc,             \* "idle", "loop", "returned", "raised"
    sig_models,         \* models, as read by run_signal_detection
    sig_i,              \* position in the loop over models
    sig_j,              \* position in the loop over detectors
    all_signals,        \* the list run_signal_detection builds and returns
    invoked,            \* the detector calls made so far and how each ended
    sig_faults          \* exceptions injected into the signal run so far

batchVars == <<raw_metrics, component_scores, daily_scores, pc, runs, faults, models,
               idx, phase1_results, sparse_components, cross_scores, results, summary,
               raised, overridden, upserts>>

normVars == <<norm_in, norm_pc, norm_out, batch_out, ma_out>>

callVars == <<call_in, call_pc, call_out>>

sigVars == <<sig_store, signals, sig_pc, sig_models, sig_i, sig_j, all_signals, invoked,
             sig_faults>>

\* no function has been called
CallIdle ==
    /\ call_in = [fn |-> "none"]
    /\ call_pc = "start"
    /\ call_out = None

\* run_signal_detection has not been called and the signals table is empty
SignalIdle ==
    /\ sig_store = <<>>
    /\ signals = {}
    /\ sig_pc = "idle"
    /\ sig_models = <<>>
    /\ sig_i = 0
    /\ sig_j = 0
    /\ all_signals = <<>>
    /\ invoked = <<>>
    /\ sig_faults = 0

\* composite rows of earlier days, as earlier daily runs left them: the
\* scores of model m on the day k days ago
PriorTrade(m, k) == 100 * (2000 + 100 * ((7 * k * k + 13 * m * k) % 50))
PriorContent(m, k) == 100 * (1500 + 100 * ((5 * k * k + 3 * m * k + m) % 60))

\* the days that have a composite row: the n days before today, or with
\* `gap` the n days before today less the day 3 days ago plus one older day
PriorDays(n, gap) ==
    IF gap /\ n >= 3 THEN ((1..(n + 1)) \ {3}) ELSE 1..n

PriorScore(col, m, k) == IF col = "vi_trade" THEN PriorTrade(m, k) ELSE PriorContent(m, k)

\* the scores of the days of `days`, oldest (largest k) first
RECURSIVE ScoresOf(_, _, _)
ScoresOf(col, m, days) ==
    IF days = {} THEN <<>>
    ELSE LET d == CHOOSE x \in days : \A y \in days : x >= y
         IN  <<PriorScore(col, m, d)>> \o ScoresOf(col, m, days \ {d})

PriorRow(m, k, days) ==
    LET tm == CalculateMomentum(ScoresOf("vi_trade", m, {d \in days : d >= k}))
        cm == CalculateMomentum(ScoresOf("vi_content", m, {d \in days : d >= k}))
    IN  [model_id |-> m,
         date |-> Today - k,
         vi_trade |-> PriorTrade(m, k),
         vi_content |-> PriorContent(m, k),
         signal_trade |-> CalculateSignalTrade(PriorTrade(m, k), tm.delta7, tm.acceleration),
         heat_content |-> CalculateHeatContent(PriorContent(m, k), cm.delta7),
         delta7_trade |-> tm.delta7,
         delta7_content |-> cm.delta7,
         accel_trade |-> tm.acceleration,
         accel_content |-> cm.acceleration,
         component_breakdown |-> [c \in CompSet |-> PriorTrade(m, k)]]


\* the batch has not run yet
BatchIdle ==
    /\ component_scores = {}
    /\ pc = "idle"
    /\ runs = 0
    /\ faults = 0
    /\ models = <<>>
    /\ idx = 0
    /\ phase1_results = <<>>
    /\ sparse_components = {}
    /\ cross_scores = <<>>
    /\ results = <<>>
    /\ summary = None
    /\ raised = {}
    /\ overridden = {}
    /\ upserts = {}

BatchInit ==
    /\ \E prof \in [ModelIds -> 1..Len(RawProfiles)] :
          raw_metrics = [m \in ModelIds |-> RawProfiles[prof[m]]]
    /\ \E n \in {0, 7, 14}, gap \in BOOLEAN :
          daily_scores = {PriorRow(m, k, PriorDays(n, gap)) :
                             m \in ModelIds, k \in PriorDays(n, gap)}
    /\ BatchIdle

\* get_all_models(): the active models in slug order
GetAllModels == [i \in 1..NumModels |-> [id |-> i, slug |-> i]]

\* an exception may be injected while the budget lasts
MayFail == faults < MaxFaults

\* a loop that stops after its first iteration
LoopDoneEarly(i, ms) == i > 1

\* the loop over models of phase 1 or phase 3 has ended at position i
LoopDone(i, ms) == i > Len(ms)
\* lines 334-340: the model list is read; an exception here leaves the function
StartRun ==
    /\ pc \in {"idle", "done", "raised"}
    /\ runs < MaxRuns
    /\ runs' = runs + 1
    /\ \E fail \in {f \in BOOLEAN : f => MayFail} :
         IF fail
           THEN /\ pc' = "raised"
                /\ faults' = faults + 1
                /\ models' = <<>>
           ELSE /\ pc' = IF LoopDone(1, GetAllModels) THEN "phase2" ELSE "phase1"
                /\ faults' = faults
                /\ models' = GetAllModels
    /\ idx' = 1
    /\ phase1_results' = <<>>
    /\ sparse_components' = {}
    /\ cross_scores' = <<>>
    /\ results' = <<>>
    /\ summary' = None
    /\ raised' = {}
    /\ overridden' = {}
    /\ UNCHANGED <<raw_metrics, component_scores, daily_scores, upserts>>
    /\ UNCHANGED <<normVars, callVars, sigVars>>

\* lines 342-355: one iteration of the phase 1 loop
Phase1Step ==
    /\ pc = "phase1"
    /\ ~LoopDone(idx, models)
    /\ LET model_id == models[idx].id
           slug == models[idx].slug
       IN  \E fail \in {f \in BOOLEAN : f => MayFail} :
             /\ \E p1 \in {IF fail THEN [slug |-> slug, error |-> "phase 1"]
                            ELSE [slug |-> slug,
                                  trade |-> CalculateIndexOf(raw_metrics, model_id, "trade"),
                                  content |-> CalculateIndexOf(raw_metrics, model_id, "content")]} :
                  phase1_results' =
                     [m \in DOMAIN phase1_results \cup {model_id} |->
                        IF m = model_id THEN p1 ELSE phase1_results[m]]
             /\ faults' = IF fail THEN faults + 1 ELSE faults
             /\ raised' = IF fail THEN raised \cup {model_id} ELSE raised
    /\ idx' = idx + 1
    /\ pc' = IF LoopDone(idx + 1, models) THEN "phase2" ELSE "phase1"
    /\ UNCHANGED <<raw_metrics, component_scores, daily_scores, runs, models,
                   sparse_components, cross_scores, results, summary, overridden,
                   upserts>>
    /\ UNCHANGED <<normVars, callVars, sigVars>>

\* phase 1 succeeded for model m
Phase1Ok(p1r, m) == m \in DOMAIN p1r /\ "error" \notin DOMAIN p1r[m]

\* the first model of the list, whether its phase 1 succeeded or not
ProxyModelFirst(ms, p1r) ==
    IF Len(ms) > 0 /\ Phase1Ok(p1r, ms[1].id) THEN ms[1].id ELSE 0

\* lines 362-367: the model whose history length decides sparsity, the first
\* in model order whose phase 1 succeeded; 0 when there is none
ProxyModel(ms, p1r) ==
    LET oks == {i \in 1..Len(ms) : Phase1Ok(p1r, ms[i].id)}
    IN  IF oks = {} THEN 0
        ELSE ms[CHOOSE i \in oks : \A j \in oks : i <= j].id
\* lines 360-367
SparseComponents(rm, ms, p1r) ==
    LET proxy == ProxyModel(ms, p1r)
    IN  IF proxy = 0 THEN {} ELSE {c \in CompSet : NeedsCrossModel(rm, proxy, c)}

\* lines 373-380
CrossScores(sparse, p1r) ==
    [c \in sparse |->
        CrossModelNormalize([m \in {x \in DOMAIN p1r : "error" \notin DOMAIN p1r[x]} |->
                                p1r[m].trade.components_raw[c]])]

\* lines 357-387: phase 2; a failed history read of _needs_cross_model leaves
\* the function with an exception
Phase2 ==
    /\ pc = "phase2"
    /\ \E fail \in {f \in BOOLEAN : f => (MayFail /\ ProxyModel(models, phase1_results) # 0)} :
         IF fail
           THEN /\ pc' = "raised"
                /\ faults' = faults + 1
                /\ UNCHANGED <<sparse_components, cross_scores>>
           ELSE /\ pc' = "phase3"
                /\ faults' = faults
                /\ sparse_components' = SparseComponents(raw_metrics, models, phase1_results)
                /\ cross_scores' = CrossScores(sparse_components', phase1_results)
    /\ idx' = 1
    /\ UNCHANGED <<raw_metrics, component_scores, daily_scores, runs, models,
                   phase1_results, results, summary, raised, overridden, upserts>>
    /\ UNCHANGED <<normVars, callVars, sigVars>>

\* an override that forgets the smoothed entries
OverrideNormalizedOnly(res, sparse, cross, m) ==
    LET hit(c) == c \in sparse /\ c \in DOMAIN cross /\ m \in DOMAIN cross[c]
    IN  [res EXCEPT
           !.components_normalized = [c \in CompSet |-> IF hit(c) THEN cross[c][m] ELSE @[c]]]

\* lines 402-409: the entries of a phase 1 result overwritten for model m
Override(res, sparse, cross, m) ==
    LET hit(c) == c \in sparse /\ c \in DOMAIN cross /\ m \in DOMAIN cross[c]
    IN  [res EXCEPT
           !.components_normalized = [c \in CompSet |-> IF hit(c) THEN cross[c][m] ELSE @[c]],
           !.components_smoothed = [c \in CompSet |-> IF hit(c) THEN cross[c][m] ELSE @[c]]]
\* lines 426-433
CompRow(model_id, calc_date, c, trade_result) ==
    [model_id |-> model_id, date |-> calc_date, component |-> c,
     raw_value |-> trade_result.components_raw[c],
     normalized_value |-> trade_result.components_normalized[c],
     smoothed_value |-> trade_result.components_smoothed[c]]

\* upsert(row, on_conflict="model_id,date,component")
UpsertComponent(table, row) ==
    {r \in table : ~(r.model_id = row.model_id /\ r.date = row.date
                     /\ r.component = row.component)} \cup {row}

\* the first k component rows of the loop of lines 425-437 upserted
RECURSIVE UpsertComponents(_, _, _, _, _)
UpsertComponents(table, model_id, calc_date, trade_result, k) ==
    IF k = 0 THEN table
    ELSE UpsertComponent(UpsertComponents(table, model_id, calc_date, trade_result, k - 1),
                         CompRow(model_id, calc_date, Components[k], trade_result))

\* upsert(row, on_conflict="model_id,date")
UpsertDaily(table, row) ==
    {r \in table : ~(r.model_id = row.model_id /\ r.date = row.date)} \cup {row}

\* _get_daily_scores_history(model_id, column, days): the stored scores of
\* the model dated today - days or later, in date order
RECURSIVE ColumnByDate(_, _)
ColumnByDate(rows, column) ==
    IF rows = {} THEN <<>>
    ELSE LET r == CHOOSE x \in rows : \A y \in rows : x.date <= y.date
         IN  <<r[column]>> \o ColumnByDate(rows \ {r}, column)

GetDailyScoresHistory(table, model_id, column, days) ==
    ColumnByDate({r \in table : r.model_id = model_id /\ r.date >= Today - days}, column)
\* lines 411-422 and 439-480: the daily_scores row of a model
DailyRow(table, model_id, calc_date, trade_result, content_result) ==
    LET vi_trade == CompositeScore(WEIGHTS_TRADE, trade_result.components_smoothed)
        vi_content == CompositeScore(WEIGHTS_CONTENT, content_result.components_smoothed)
        trade_history ==
            Append(GetDailyScoresHistory(table, model_id, "vi_trade", ScoreDays), vi_trade)
        content_history ==
            Append(GetDailyScoresHistory(table, model_id, "vi_content", ScoreDays), vi_content)
        trade_momentum == CalculateMomentum(trade_history)
        content_momentum == CalculateMomentum(content_history)
    IN  [model_id |-> model_id,
         date |-> calc_date,
         vi_trade |-> vi_trade,
         vi_content |-> vi_content,
         signal_trade |-> CalculateSignalTrade(vi_trade, trade_momentum.delta7,
                                               trade_momentum.acceleration),
         heat_content |-> CalculateHeatContent(vi_content, content_momentum.delta7),
         delta7_trade |-> trade_momentum.delta7,
         delta7_content |-> content_momentum.delta7,
         accel_trade |-> trade_momentum.acceleration,
         accel_content |-> content_momentum.acceleration,
         component_breakdown |-> trade_result.components_smoothed]

\* the entries of the details list
ErrorEntry(slug, e) == [model |-> slug, status |-> "ERROR", error |-> e]
OkEntry(slug, row) ==
    [model |-> slug, status |-> "OK", vi_trade |-> row.vi_trade,
     vi_content |-> row.vi_content, signal_trade |-> row.signal_trade,
     heat_content |-> row.heat_content, delta7_trade |-> row.delta7_trade]

\* a handler that logs and records nothing
RecordFailureLogOnly(res, slug, e) == res

\* lines 502-504: the handler of an exception of phase 3
RecordFailure(res, slug, e) == Append(res, ErrorEntry(slug, e))
\* the number of component rows written before an exception of phase 3:
\* upsert k + 1 fails for k < 6; with all 6 written a score-history read or
\* the daily_scores upsert fails
FaultPoints == 0..Len(Components)

\* lines 389-504: one iteration of the phase 3 loop
Phase3Step ==
    /\ pc = "phase3"
    /\ ~LoopDone(idx, models)
    /\ LET model_id == models[idx].id
           slug == models[idx].slug
           p1 == IF model_id \in DOMAIN phase1_results
                   THEN phase1_results[model_id] ELSE <<>>
       IN  IF "error" \in DOMAIN p1
             THEN /\ results' = Append(results, ErrorEntry(slug, p1.error))
                  /\ UNCHANGED <<component_scores, daily_scores, faults, phase1_results,
                                 raised, overridden, upserts>>
           ELSE IF "trade" \notin DOMAIN p1
             THEN /\ results' = RecordFailure(results, slug, "KeyError")
                  /\ UNCHANGED <<component_scores, daily_scores, faults, phase1_results,
                                 raised, overridden, upserts>>
           ELSE
             \E trade_result \in {Override(p1.trade, sparse_components, cross_scores, model_id)},
                content_result \in {Override(p1.content, sparse_components, cross_scores, model_id)} :
             \E daily_row \in {DailyRow(daily_scores, model_id, Today, trade_result, content_result)} :
                 /\ phase1_results' = [phase1_results EXCEPT ![model_id] =
                         [slug |-> slug, trade |-> trade_result, content |-> content_result]]
                 /\ overridden' = overridden \cup
                         {<<model_id, c>> : c \in {x \in sparse_components :
                              x \in DOMAIN cross_scores /\ model_id \in DOMAIN cross_scores[x]}}
                 /\ \/ /\ component_scores' =
                            UpsertComponents(component_scores, model_id, Today, trade_result,
                                             Len(Components))
                       /\ daily_scores' = UpsertDaily(daily_scores, daily_row)
                       /\ results' = Append(results, OkEntry(slug, daily_row))
                       /\ upserts' = upserts \cup {<<runs, daily_row>>}
                       /\ UNCHANGED <<faults, raised>>
                    \/ /\ MayFail
                       /\ \E k \in FaultPoints :
                            component_scores' =
                               UpsertComponents(component_scores, model_id, Today,
                                                trade_result, k)
                       /\ results' = RecordFailure(results, slug, "phase 3")
                       /\ faults' = faults + 1
                       /\ raised' = raised \cup {model_id}
                       /\ UNCHANGED <<daily_scores, upserts>>
    /\ idx' = idx + 1
    /\ UNCHANGED <<raw_metrics, pc, runs, models, sparse_components, cross_scores, summary>>
    /\ UNCHANGED <<normVars, callVars, sigVars>>

\* line 506
OkCount(res) == Cardinality({i \in 1..Len(res) : res[i].status = "OK"})

\* lines 506-516: the summary is returned
Return ==
    /\ pc = "phase3"
    /\ LoopDone(idx, models)
    /\ pc' = "done"
    /\ summary' = [date |-> Today, models_calculated |-> OkCount(results),
                   models_total |-> Len(models), details |-> results]
    /\ UNCHANGED <<raw_metrics, component_scores, daily_scores, runs, faults, models, idx,
                   phase1_results, sparse_components, cross_scores, results, raised,
                   overridden, upserts>>
    /\ UNCHANGED <<normVars, callVars, sigVars>>

(***************************************************************************)
(* Calls of quantile_normalize and normalize_batch on drawn arguments.     *)
(***************************************************************************)
MaxRunLen == 7              \* longest run of one repeated value in a history
MaxHeadLen == 2             \* longest free part of a history

NormFinite == {0, 2, 5}
NormValues == {Fin(x) : x \in NormFinite} \cup {NaN, PInf}

\* the histories drawn: a run of one value followed by any short sequence
NormHistories ==
    {[i \in 1..k |-> Fin(v)] \o h :
        k \in 0..MaxRunLen, v \in NormFinite,
        h \in UNION {[1..n -> NormValues] : n \in 0..MaxHeadLen}}

NormIdle ==
    /\ norm_in = [values |-> <<>>, current_value |-> None, window |-> QuantileWindow]
    /\ norm_pc = "start"
    /\ norm_out = None
    /\ batch_out = <<>>
    /\ ma_out = None

NormInit ==
    /\ norm_in \in [values : NormHistories,
                    current_value : {None, NaN, PInf, NInf}
                                       \cup {Fin(x) : x \in {-3, 0, 2, 3, 5, 9}},
                    window : {-1, 0, 1, 2, MaxRunLen + 1, QuantileWindow}]
    /\ norm_pc = "start"
    /\ norm_out = None
    /\ batch_out = <<>>
    /\ ma_out = None
    /\ raw_metrics = [m \in ModelIds |-> RawProfiles[1]]
    /\ daily_scores = {}
    /\ BatchIdle
    /\ CallIdle
    /\ SignalIdle

\* quantile_normalize(values, current_value, window)
DoNormalize ==
    /\ norm_pc = "start"
    /\ norm_pc' = "normalized"
    /\ norm_out' = QuantileNormalize(norm_in.values, norm_in.current_value,
                                     norm_in.window, QuantileLow, QuantileHigh)
    /\ UNCHANGED <<norm_in, batch_out, ma_out>>
    /\ UNCHANGED <<batchVars, callVars, sigVars>>

\* normalize_batch({"a": values, "b": []}, window)
DoNormalizeBatch ==
    /\ norm_pc = "normalized"
    /\ norm_pc' = "batched"
    /\ batch_out' = NormalizeBatch([a |-> norm_in.values, b |-> <<>>], norm_in.window)
    /\ UNCHANGED <<norm_in, norm_out, ma_out>>
    /\ UNCHANGED <<batchVars, callVars, sigVars>>

\* moving_average(values, window)
DoMovingAverage ==
    /\ norm_pc = "batched"
    /\ norm_pc' = "averaged"
    /\ ma_out' = MovingAverage(norm_in.values, norm_in.window)
    /\ UNCHANGED <<norm_in, norm_out, batch_out>>
    /\ UNCHANGED <<batchVars, callVars, sigVars>>

(***************************************************************************)
(* signal_detector.py: the three detectors, as functions of the rows their *)
(* queries return.  A column of a daily_scores row is Fin(x), x in         *)
(* ten-thousandths, or None for NULL; raw metric values are whole numbers. *)
(* The result of a detector is NoSignal for None, Raises for the TypeError *)
(* of float(None), or the signal.  Of a divergence signal the fields       *)
(* strength, divergence_score and reasoning are not represented.           *)
(***************************************************************************)
NoSignal == [kind |-> "none"]
Raises == [kind |-> "raise"]

\* float(row.get(column) or 0): NULL and 0 are both 0.0
OrZero(x) == IF x = None THEN 0 ELSE x.v

\* lines 105-107 and 120-122: values[i] - values[i - 7] for i = 7..len-1
Delta7Series(values) ==
    IF Len(values) <= 7 THEN <<>>
    ELSE [i \in 1..(Len(values) - 7) |-> values[i + 7] - values[i]]

\* the greatest common divisor of the absolute values, 0 when all are 0
RECURSIVE GcdAll(_)
GcdAll(s) ==
    IF s = <<>> THEN 0
    ELSE Gcd(IF Head(s) < 0 THEN 0 - Head(s) ELSE Head(s), GcdAll(Tail(s)))

\* _z_score(values) as a / sqrt(v): with n values of sum s, last - mean is
\* (n*last - s)/n and std is sqrt(n*sum(x^2) - s^2)/n.  The z-score does not
\* change when every value is divided by a common factor, which is done
\* first; 0.0 (a = 0) for fewer than 3 values or no deviation.
ZScore(values) ==
    LET n == Len(values)
        g == GcdAll(values)
        xs == IF g = 0 THEN values ELSE [i \in 1..n |-> values[i] \div g]
        s == SeqSum(xs)
        v == n * SeqSum([i \in 1..n |-> xs[i] * xs[i]]) - s * s
    IN  IF n < 3 \/ v = 0 THEN [a |-> 0, v |-> 1]
        ELSE [a |-> n * xs[n] - s, v |-> v]

\* x * sqrt(a) > y * sqrt(b), for a, b > 0
GtRoots(x, a, y, b) ==
    IF x >= 0
      THEN IF y < 0 THEN TRUE
           ELSE x * x * a > y * y * b
      ELSE IF y >= 0 THEN FALSE
           ELSE x * x * a < y * y * b

\* z_vi - z_d > 0
DivergencePositive(z_vi, z_d) == GtRoots(z_vi.a, z_d.v, z_d.a, z_vi.v)

\* abs(z_vi - z_d) > 1.5: with p = z_vi and q = z_d,
\* 4*(p^2 + q^2) - 9 > 8*p*q, multiplied by v_vi * v_d
DivergenceExceeds(z_vi, z_d) ==
    LET l == 4 * z_vi.a * z_vi.a * z_d.v + 4 * z_d.a * z_d.a * z_vi.v
             - 9 * z_vi.v * z_d.v
        r == 8 * z_vi.a * z_d.a
    IN  IF l >= 0 THEN GtRoots(l, 1, r, z_vi.v * z_d.v)
        ELSE r < 0 /\ l * l < r * r * z_vi.v * z_d.v

\* abs(z_vi - z_d) against rationals of denominator q, prepared: with
\* A = a_vi^2*v_d + a_d^2*v_vi, B = v_vi*v_d and r = 2*q^2*a_vi*a_d, the
\* numbers q^2*A, B and r^2*B, and the sign of r
Divergence(z_vi, z_d, q) ==
    LET B == BigOf(z_vi.v * z_d.v)
        qq == BigMul(BigOf(q), BigOf(q))
        c == z_vi.a * z_d.a
        rabs == BigMul(BigOf(2 * (IF c < 0 THEN 0 - c ELSE c)), qq)
    IN  [qqA |-> BigMul(qq, BigOf(z_vi.a * z_vi.a * z_d.v + z_d.a * z_d.a * z_vi.v)),
         B |-> B,
         rrB |-> BigMul(BigMul(rabs, rabs), B),
         sr |-> IF c > 0 THEN 1 ELSE IF c < 0 THEN -1 ELSE 0]

\* -1, 0 or 1 as the divergence d is below, equal to or above p/q in absolute
\* value: the sign of l - r*sqrt(B) with l = q^2*A - p^2*B
DivergenceCmp(d, p) ==
    IF p < 0 THEN 1
    ELSE
      LET l2 == BigMul(BigMul(BigOf(p), BigOf(p)), d.B)
          sl == BigCmp(d.qqA, l2)
          labs == IF sl >= 0 THEN BigSub(d.qqA, l2, 0) ELSE BigSub(l2, d.qqA, 0)
          ll == BigMul(labs, labs)
      IN  IF sl >= 0 /\ d.sr <= 0 THEN (IF sl = 0 /\ d.sr = 0 THEN 0 ELSE 1)
          ELSE IF sl <= 0 /\ d.sr >= 0 THEN -1
          ELSE IF sl > 0 THEN BigCmp(ll, d.rrB)
          ELSE BigCmp(d.rrB, ll)

\* the largest k in lo..hi-1 with abs(divergence) * num/den > k - 1/2, given
\* that lo is one and hi is none; d is prepared for the denominator 2*num
RECURSIVE StrengthSearch(_, _, _, _)
StrengthSearch(d, den, lo, hi) ==
    IF hi - lo <= 1 THEN lo
    ELSE LET mid == (lo + hi) \div 2
         IN  IF DivergenceCmp(d, den * (2 * mid - 1)) = 1
               THEN StrengthSearch(d, den, mid, hi)
               ELSE StrengthSearch(d, den, lo, mid)

\* round(min(100, abs(divergence) * num/den hundredths), 2), in hundredths
StrengthWith(z_vi, z_d, num, den) ==
    LET d == Divergence(z_vi, z_d, 2 * num)
    IN  IF DivergenceCmp(d, den * 19999) = 1 THEN 10000
        ELSE LET k == StrengthSearch(d, den, 0, 10000)
             IN  IF DivergenceCmp(d, den * (2 * k + 1)) = 0 /\ k % 2 = 1
                   THEN k + 1 ELSE k

\* a strength of 100/3 per unit of divergence
DivergenceStrengthThirds(z_vi, z_d) == StrengthWith(z_vi, z_d, 10000, 3)

\* line 146: round(min(100, abs(divergence) * 33.3), 2), in hundredths
DivergenceStrength(z_vi, z_d) == StrengthWith(z_vi, z_d, 3330, 1)

\* detect_divergence(model_id, calc_date), daily_rows and d_rows being what
\* _get_daily_scores_series and get_raw_metrics return
DetectDivergence(daily_rows, d_rows, calc_date) ==
    IF Len(daily_rows) < 8 THEN NoSignal
    ELSE IF \E i \in 1..Len(daily_rows) : daily_rows[i].vi_trade = None THEN Raises
    ELSE
      LET vi_trade_values == [i \in 1..Len(daily_rows) |-> daily_rows[i].vi_trade.v]
          vi_deltas == Delta7Series(vi_trade_values)
      IN  IF Len(vi_deltas) < 3 THEN NoSignal
          ELSE IF Len(d_rows) < 8 THEN NoSignal
          ELSE
            LET d_deltas == Delta7Series(d_rows)
            IN  IF Len(d_deltas) < 3 THEN NoSignal
                ELSE
                  LET z_vi == ZScore(vi_deltas)
                      z_d == ZScore(d_deltas)
                  IN  IF ~DivergenceExceeds(z_vi, z_d) THEN NoSignal
                      ELSE [kind |-> "signal",
                            signal_type |-> "divergence",
                            direction |-> IF DivergencePositive(z_vi, z_d)
                                            THEN "bullish" ELSE "bearish",
                            strength |-> DivergenceStrength(z_vi, z_d),
                            vi_trade |-> Last(vi_trade_values),
                            expires_at |-> calc_date + 7]

\* the loosest thresholds whatever the number of rows
BreakoutThresholdsLoose(days_available) ==
    [vi_threshold |-> 60 * 10000, delta_threshold |-> 5 * 10000]

\* lines 191-198: the thresholds by the number of rows available
BreakoutThresholds(days_available) ==
    IF days_available >= 14
      THEN [vi_threshold |-> 70 * 10000, delta_threshold |-> 15 * 10000]
    ELSE IF days_available >= 7
      THEN [vi_threshold |-> 65 * 10000, delta_threshold |-> 10 * 10000]
    ELSE [vi_threshold |-> 60 * 10000, delta_threshold |-> 5 * 10000]

\* growth measured from the first to the last point whatever their number
DGrewFirstToLast(d_rows) ==
    IF Len(d_rows) < 2 THEN FALSE
    ELSE LET base == IF d_rows[1] > 0 THEN d_rows[1] ELSE 1
         IN  100 * (d_rows[Len(d_rows)] - d_rows[1]) >= 10 * base

\* lines 205-213: d_grew_pct >= 10.0, that is 100 * change >= 10 * base
DGrewTenPercent(d_rows) ==
    IF Len(d_rows) < 2 THEN FALSE
    ELSE LET base == IF d_rows[1] > 0 THEN d_rows[1] ELSE 1
             n == Len(d_rows)
             change == IF n >= 8 THEN d_rows[n] - d_rows[n - 7]
                       ELSE d_rows[n] - d_rows[1]
         IN  100 * change >= 10 * base

\* detect_momentum_breakout(model_id, calc_date)
DetectMomentumBreakout(daily_rows, d_rows, calc_date) ==
    IF Len(daily_rows) < 3 THEN NoSignal
    ELSE
      LET latest == Last(daily_rows)
      IN  IF latest.vi_trade = None THEN Raises
          ELSE
            LET vi_trade == latest.vi_trade.v
                delta7 == OrZero(latest.delta7_trade)
                accel == OrZero(latest.accel_trade)
                t == BreakoutThresholds(Len(daily_rows))
            IN  IF vi_trade <= t.vi_threshold \/ delta7 <= t.delta_threshold
                   \/ accel <= 0
                  THEN NoSignal
                ELSE IF DGrewTenPercent(d_rows) THEN NoSignal
                ELSE [kind |-> "signal",
                      signal_type |-> "momentum_breakout",
                      direction |-> "bullish",
                      strength |->
                          100 * RoundHalfEven(Min2(2 * Hundred, vi_trade + 4 * delta7), 200),
                      vi_trade |-> vi_trade,
                      expires_at |-> calc_date + 5]

\* the early-stage threshold whatever the number of rows
DThresholdEarly(days_available) == 50 * 10000

\* line 267: d_threshold
DThreshold(days_available) ==
    IF days_available >= 7 THEN 65 * 10000 ELSE 50 * 10000

\* detect_adoption_backed(model_id, calc_date), d_score, g_score and g_prev
\* being what _get_component_score returns for D and G on calc_date and for
\* G on calc_date - 7: None when there is no row
DetectAdoptionBacked(daily_rows, d_score, g_score, g_prev, calc_date) ==
    IF daily_rows = <<>> THEN NoSignal
    ELSE
      LET latest == Last(daily_rows)
      IN  IF latest.vi_trade = None THEN Raises
          ELSE
            LET vi_trade == latest.vi_trade.v
                delta7 == OrZero(latest.delta7_trade)
                d_threshold == DThreshold(Len(daily_rows))
            IN  IF delta7 <= 0 THEN NoSignal
                ELSE IF d_score = None THEN NoSignal
                ELSE IF d_score.v <= d_threshold THEN NoSignal
                ELSE IF g_score = None THEN NoSignal
                ELSE IF g_prev # None /\ g_score.v <= g_prev.v THEN NoSignal
                ELSE [kind |-> "signal",
                      signal_type |-> "adoption_backed",
                      direction |-> "bullish",
                      strength |->
                          100 * RoundHalfEven(
                                    Min2(10 * Hundred, 6 * d_score.v + 20 * delta7), 1000),
                      vi_trade |-> vi_trade,
                      expires_at |-> calc_date + 7]

(***************************************************************************)
(* Calls of the pure functions on drawn arguments.                         *)
(***************************************************************************)
MaxCrossModels == 3         \* models in one call of cross_model_normalize
MaxEwmaLen == 3             \* longest series handed to ewma

\* raw values, in halves: negative, zero and positive ones
CrossCalls ==
    {[fn |-> "cross_model_normalize", values_by_model |-> f] :
        f \in UNION {[ids -> {-2, 0, 2, 4, 16}] : ids \in SUBSET (1..MaxCrossModels)}}

\* series in hundred-thousandths (EwmaUnit of them are 0.0001), so that an
\* element can have a fifth decimal; alpha in hundredths
EwmaUnit == 10
EwmaCalls ==
    {[fn |-> "ewma", values |-> v, alpha |-> a] :
        v \in UNION {[1..n -> {Fin(x) : x \in {0, 123, 100000, 333337}} \cup {NaN, PInf}] :
                        n \in 0..MaxEwmaLen},
        a \in {-50, 0, 35, 100, 150}}

\* ascending series of daily scores in ten-thousandths, of every length up to
\* MaxScoreLen; the positions -1, -8, -15 and -16 take every value of
\* {0, 12.3456, 50, 99.9999}, the others hold the day number
MaxScoreLen == 16
KeyPositions(n) == {n, n - 7, n - 14, n - 15} \cap (1..n)
ScoreSeries(n) ==
    {[i \in 1..n |-> IF i \in KeyPositions(n) THEN f[i] ELSE 10000 * i] :
        f \in [KeyPositions(n) -> {0, 123456, 500000, 999999}]}
MomentumCalls ==
    {[fn |-> "calculate_momentum", scores |-> s] :
        s \in UNION {ScoreSeries(n) : n \in 0..MaxScoreLen}}

\* composite scores, momenta and accelerations in ten-thousandths, within and
\* beyond the clamps at 50 and 30
MomentumArguments ==
    [vi : {0, 100, 333300, 500000, Hundred},
     delta7 : {-600000, -500000, -499300, -100, 0, 100, 123400, 500000, 700000},
     acceleration : {-400000, -300000, -100, 0, 100000, 300000, 350000}]
SignalCalls ==
    {[fn |-> "calculate_signal_trade", vi_trade |-> a.vi, delta7 |-> a.delta7,
      acceleration |-> a.acceleration] : a \in MomentumArguments}
HeatCalls ==
    {[fn |-> "calculate_heat_content", vi_content |-> a.vi, delta7 |-> a.delta7] :
        a \in MomentumArguments}

\* histories of every length up to MaxRows for detect_divergence: the first 7
\* values are 0 and each later one is drawn, so that the drawn values are the
\* delta7 series; the first daily_scores row may hold a NULL vi_trade
MaxRows == 10
TailSeries ==
    UNION {{[i \in 1..n |-> IF i <= 7 THEN 0 ELSE f[i]] : f \in [8..n -> {0, 1, 2}]} :
              n \in 0..MaxRows}
FillerRow == [vi_trade |-> Fin(Fifty), delta7_trade |-> Fin(0), accel_trade |-> Fin(0)]
DivergenceCalls ==
    {[fn |-> "detect_divergence",
      daily_rows |-> [i \in 1..Len(s) |->
                        [FillerRow EXCEPT !.vi_trade =
                            IF i = 1 /\ null THEN None ELSE Fin(100000 * s[i])]],
      d_rows |-> [i \in 1..Len(d) |-> 100 + 10 * d[i]]] :
        s \in TailSeries, null \in BOOLEAN, d \in TailSeries}

\* daily_scores rows for the two other detectors: the latest row is drawn,
\* around the thresholds and with NULL columns, the earlier ones are fillers
LatestRows ==
    [vi_trade : {None} \cup {Fin(x) : x \in {600000, 600100, 650100, 700000, 700100, 900000}},
     delta7_trade : {None} \cup {Fin(x) : x \in {-10000, 0, 50000, 50100, 100100, 150000, 150100}},
     accel_trade : {None} \cup {Fin(x) : x \in {-10000, 0, 100}}]
DailyRows(n, latest) == [i \in 1..n |-> IF i = n THEN latest ELSE FillerRow]
DHistories ==
    {<<>>, <<100>>, <<100, 109>>, <<100, 110>>, <<0, 0>>,
     <<100, 100, 100, 100, 100, 100, 100, 100, 120>>,
     <<50, 100, 100, 100, 100, 100, 100, 100, 104>>}
BreakoutCalls ==
    {[fn |-> "detect_momentum_breakout",
      daily_rows |-> DailyRows(n, latest),
      d_rows |-> dh] :
        n \in {0, 2, 3, 6, 7, 13, 14, 15},
        latest \in {r \in LatestRows : r.delta7_trade # Fin(-10000)},
        dh \in DHistories}

\* smoothed component scores around the thresholds, None for no row
ComponentScores ==
    [d_score : {None} \cup {Fin(x) : x \in {500000, 500100, 650000, 650100}},
     g_score : {None} \cup {Fin(x) : x \in {400000, 600000}},
     g_prev : {None} \cup {Fin(x) : x \in {400000, 600000, 700000}}]
AdoptionCalls ==
    {[fn |-> "detect_adoption_backed",
      daily_rows |-> DailyRows(n, latest),
      d_score |-> c.d_score, g_score |-> c.g_score, g_prev |-> c.g_prev] :
        n \in {0, 1, 6, 7},
        latest \in {r \in LatestRows : /\ r.vi_trade \in {None, Fin(900000)}
                                       /\ r.delta7_trade.v <= 50000
                                       /\ r.accel_trade = Fin(0)},
        c \in ComponentScores}

CallInit ==
    /\ call_in \in CrossCalls \cup EwmaCalls \cup MomentumCalls
                    \cup SignalCalls \cup HeatCalls
                    \cup DivergenceCalls \cup BreakoutCalls \cup AdoptionCalls
    /\ call_pc = "start"
    /\ call_out = None
    /\ raw_metrics = [m \in ModelIds |-> RawProfiles[1]]
    /\ daily_scores = {}
    /\ BatchIdle
    /\ NormIdle
    /\ SignalIdle

\* cross_model_normalize(values_by_model)
DoCrossModelNormalize ==
    /\ call_pc = "start"
    /\ call_in.fn = "cross_model_normalize"
    /\ call_pc' = "called"
    /\ call_out' = CrossModelNormalize(call_in.values_by_model)
    /\ UNCHANGED call_in
    /\ UNCHANGED <<batchVars, normVars, sigVars>>

\* ewma(values, alpha); prev = values[0] is set up for the single steps
DoEwma ==
    /\ call_pc = "start"
    /\ call_in.fn = "ewma"
    /\ call_pc' = "called"
    /\ \E r \in {EwmaCall(call_in.values, call_in.alpha, EwmaUnit)} :
          call_out' = [raised |-> r.raised, result |-> r.result,
                       single |-> IF call_in.values = <<>> \/ r.raised THEN <<>>
                                  ELSE <<call_in.values[1]>>]
    /\ UNCHANGED call_in
    /\ UNCHANGED <<batchVars, normVars, sigVars>>

\* prev = ewma_single(prev, values[i], alpha) for the next i
DoEwmaSingle ==
    /\ call_pc = "called"
    /\ call_in.fn = "ewma"
    /\ call_out.single # <<>>
    /\ Len(call_out.single) < Len(call_in.values)
    /\ call_out' = [call_out EXCEPT !.single =
                        Append(@, EwmaSingle(Last(@), call_in.values[Len(@) + 1],
                                             call_in.alpha, EwmaUnit))]
    /\ UNCHANGED <<call_in, call_pc>>
    /\ UNCHANGED <<batchVars, normVars, sigVars>>

DoCalculateMomentum ==
    /\ call_pc = "start"
    /\ call_in.fn = "calculate_momentum"
    /\ call_out' = CalculateMomentum(call_in.scores)
    /\ call_pc' = "called"
    /\ UNCHANGED <<call_in, batchVars, normVars, sigVars>>

DoCalculateSignalTrade ==
    /\ call_pc = "start"
    /\ call_in.fn = "calculate_signal_trade"
    /\ \E s \in SignalTradeOutcomes(call_in.vi_trade, call_in.delta7,
                                    call_in.acceleration) :
          call_out' = [signal |-> s]
    /\ call_pc' = "called"
    /\ UNCHANGED <<call_in, batchVars, normVars, sigVars>>

\* calculate_heat_content(vi_content, delta7), then with the same delta7 for
\* a vi_content of 0 and of 100
DoCalculateHeatContent ==
    /\ call_pc = "start"
    /\ call_in.fn = "calculate_heat_content"
    /\ \E h \in HeatContentOutcomes(call_in.vi_content, call_in.delta7),
          h0 \in HeatContentOutcomes(0, call_in.delta7),
          h100 \in HeatContentOutcomes(Hundred, call_in.delta7) :
          call_out' = [heat |-> h, heat0 |-> h0, heat100 |-> h100]
    /\ call_pc' = "called"
    /\ UNCHANGED <<call_in, batchVars, normVars, sigVars>>

DoDetectDivergence ==
    /\ call_pc = "start"
    /\ call_in.fn = "detect_divergence"
    /\ call_out' = DetectDivergence(call_in.daily_rows, call_in.d_rows, Today)
    /\ call_pc' = "called"
    /\ UNCHANGED <<call_in, batchVars, normVars, sigVars>>

DoDetectMomentumBreakout ==
    /\ call_pc = "start"
    /\ call_in.fn = "detect_momentum_breakout"
    /\ call_out' = DetectMomentumBreakout(call_in.daily_rows, call_in.d_rows, Today)
    /\ call_pc' = "called"
    /\ UNCHANGED <<call_in, batchVars, normVars, sigVars>>

\* detect_quality_backed is the same function
DoDetectAdoptionBacked ==
    /\ call_pc = "start"
    /\ call_in.fn = "detect_adoption_backed"
    /\ call_out' = DetectAdoptionBacked(call_in.daily_rows, call_in.d_score,
                                        call_in.g_score, call_in.g_prev, Today)
    /\ call_pc' = "called"
    /\ UNCHANGED <<call_in, batchVars, normVars, sigVars>>

(***************************************************************************)
(* signal_detector.py: run_signal_detection over the stored rows of each   *)
(* model.                                                                  *)
(***************************************************************************)
\* What is stored for one model when the signal run starts: 16 daily_scores
\* rows on consecutive days with a composite of 50 and the drawn latest row,
\* 16 flat downloads_daily rows up to today, and the smoothed D and G scores
\* of today and the G score of 7 days ago.
\*   1  today's row is a surge: every detector has a signal
\*   2  today's row is quiet: no detector has a signal
\*   3  the surge is yesterday's row and today has no row and no components
\*   4  the surge is yesterday's row, today has component rows only
\*   5  today's row is a surge and the oldest row has a NULL vi_trade
SigStores ==
    LET surge == [vi_trade |-> Fin(900000), delta7_trade |-> Fin(400000),
                  accel_trade |-> Fin(400000)]
        daily(last, latest, null) ==
            [i \in 1..16 |->
                [date |-> last - (16 - i)] @@
                (IF i = 16 THEN latest
                 ELSE IF i = 1 /\ null THEN [FillerRow EXCEPT !.vi_trade = None]
                 ELSE FillerRow)]
        store(last, latest, null, scored) ==
            [daily_rows |-> daily(last, latest, null),
             raw |-> [x \in {"devadoption/downloads_daily"} |->
                         Rows(16, [k \in 0..15 |-> 100])],
             d_score |-> IF scored THEN Fin(700000) ELSE None,
             g_score |-> IF scored THEN Fin(600000) ELSE None,
             g_prev |-> IF scored THEN Fin(400000) ELSE None]
    IN  << store(Today, surge, FALSE, TRUE),
           store(Today, FillerRow, FALSE, TRUE),
           store(Today - 1, surge, FALSE, FALSE),
           store(Today - 1, surge, FALSE, TRUE),
           store(Today, surge, TRUE, FALSE) >>

SignalInit ==
    /\ sig_store \in [ModelIds -> {SigStores[k] : k \in 1..Len(SigStores)}]
    /\ signals = {}
    /\ sig_pc = "idle"
    /\ sig_models = <<>>
    /\ sig_i = 0
    /\ sig_j = 0
    /\ all_signals = <<>>
    /\ invoked = <<>>
    /\ sig_faults = 0
    /\ raw_metrics = [m \in ModelIds |-> RawProfiles[1]]
    /\ daily_scores = {}
    /\ BatchIdle
    /\ NormIdle
    /\ CallIdle

\* lines 322-326
Detectors == <<"detect_divergence", "detect_momentum_breakout", "detect_adoption_backed">>

\* detector(model_id, calc_date) on the stored rows: _get_daily_scores_series
\* returns the daily rows dated today - days or later, get_raw_metrics the
\* downloads_daily values of the same window
RunDetector(store, model_id, detector, calc_date) ==
    LET series(days) ==
            SelectSeq(store[model_id].daily_rows, LAMBDA r : r.date >= Today - days)
        d_rows(days) ==
            LET rows == GetRawMetrics([m \in DOMAIN store |-> store[m].raw], model_id,
                                      "devadoption/downloads_daily", days)
            IN  [i \in 1..Len(rows) |-> rows[i].metric_value]
    IN  IF detector = "detect_divergence"
          THEN DetectDivergence(series(30), d_rows(30), calc_date)
        ELSE IF detector = "detect_momentum_breakout"
          THEN DetectMomentumBreakout(series(14), d_rows(14), calc_date)
        ELSE DetectAdoptionBacked(series(14), store[model_id].d_score,
                                  store[model_id].g_score, store[model_id].g_prev,
                                  calc_date)

\* a list that receives a signal only once its upsert has succeeded
CollectUpserted(list, signal, upserted) ==
    IF upserted THEN Append(list, signal) ELSE list

\* line 338: all_signals.append(signal), before the upsert is tried
Collect(list, signal, upserted) == Append(list, signal)

\* a try block around the loop over the detectors of one model
AfterCallSkipModel(i, j, failed) ==
    IF failed \/ j = Len(Detectors) THEN [i |-> i + 1, j |-> 1] ELSE [i |-> i, j |-> j + 1]

\* lines 332-354: the position after the call of detector j for model i; the
\* try block is around the single call
AfterCall(i, j, failed) ==
    IF j = Len(Detectors) THEN [i |-> i + 1, j |-> 1] ELSE [i |-> i, j |-> j + 1]

\* lines 319-328: the models are read; an exception here leaves the function
StartSignalRun ==
    /\ sig_pc = "idle"
    /\ \E fail \in {f \in BOOLEAN : f => sig_faults < MaxFaults} :
         IF fail
           THEN /\ sig_pc' = "raised"
                /\ sig_faults' = sig_faults + 1
                /\ sig_models' = <<>>
           ELSE /\ sig_pc' = IF GetAllModels = <<>> THEN "returned" ELSE "loop"
                /\ sig_faults' = sig_faults
                /\ sig_models' = GetAllModels
    /\ sig_i' = 1
    /\ sig_j' = 1
    /\ all_signals' = <<>>
    /\ invoked' = <<>>
    /\ UNCHANGED <<sig_store, signals>>
    /\ UNCHANGED <<batchVars, normVars, callVars>>

\* lines 330-354: one detector call for one model, with the upsert of its
\* signal; the return of line 361 follows the last one
DetectorStep ==
    /\ sig_pc = "loop"
    /\ LET model_id == sig_models[sig_i].id
           detector == Detectors[sig_j]
           call == [model_id |-> model_id, detector |-> detector]
       IN  \E fail \in {f \in BOOLEAN : f => sig_faults < MaxFaults} :
           \E result \in {IF fail THEN Raises
                           ELSE RunDetector(sig_store, model_id, detector, Today)} :
             IF result.kind # "signal"
               THEN /\ invoked' = Append(invoked,
                          call @@ [outcome |-> IF result = Raises THEN "raised" ELSE "none"])
                    /\ sig_faults' = IF fail THEN sig_faults + 1 ELSE sig_faults
                    /\ \E next \in {AfterCall(sig_i, sig_j, result = Raises)} :
                          /\ sig_i' = next.i
                          /\ sig_j' = next.j
                          /\ sig_pc' = IF next.i > Len(sig_models) THEN "returned" ELSE "loop"
                    /\ UNCHANGED <<signals, all_signals>>
               ELSE
                 \E signal \in {[model_id |-> model_id, date |-> Today] @@ result} :
                 \E upfail \in {f \in BOOLEAN : f => sig_faults < MaxFaults} :
                    /\ all_signals' = Collect(all_signals, signal, ~upfail)
                    /\ signals' =
                          IF upfail THEN signals
                          ELSE {r \in signals : ~(/\ r.model_id = signal.model_id
                                                   /\ r.date = signal.date
                                                   /\ r.signal_type = signal.signal_type)}
                                  \cup {signal}
                    /\ invoked' = Append(invoked,
                          call @@ [outcome |-> IF upfail THEN "upsert raised" ELSE "upserted",
                                   signal |-> signal])
                    /\ sig_faults' = IF upfail THEN sig_faults + 1 ELSE sig_faults
                    /\ \E next \in {AfterCall(sig_i, sig_j, upfail)} :
                          /\ sig_i' = next.i
                          /\ sig_j' = next.j
                          /\ sig_pc' = IF next.i > Len(sig_models) THEN "returned" ELSE "loop"
    /\ UNCHANGED <<sig_store, sig_models>>
    /\ UNCHANGED <<batchVars, normVars, callVars>>

vars == <<batchVars, normVars, callVars, sigVars>>

Init == BatchInit /\ NormIdle /\ CallIdle /\ SignalIdle

Next == StartRun \/ Phase1Step \/ Phase2 \/ Phase3Step \/ Return

Spec == Init /\ [][Next]_vars

NormNext == DoNormalize \/ DoNormalizeBatch \/ DoMovingAverage

SpecNorm == NormInit /\ [][NormNext]_vars

SignalNext == StartSignalRun \/ DetectorStep

SpecSignals == SignalInit /\ [][SignalNext]_vars

CallNext ==
    \/ DoCrossModelNormalize
    \/ DoEwma
    \/ DoEwmaSingle
    \/ DoCalculateMomentum
    \/ DoCalculateSignalTrade
    \/ DoCalculateHeatContent
    \/ DoDetectDivergence
    \/ DoDetectMomentumBreakout
    \/ DoDetectAdoptionBacked

SpecCalls == CallInit /\ [][CallNext]_vars

(***************************************************************************)
(* Properties of the daily batch.                                          *)
(***************************************************************************)
ScoreColumns ==
    {"vi_trade", "vi_content", "delta7_trade", "delta7_content",
     "accel_trade", "accel_content", "signal_trade", "heat_content"}

\* C1: run_daily_calculation is idempotent on re-run.  Two runs for the same
\* date, with the same raw metrics, the same composite rows of earlier days
\* and no exception in either, upsert for each model daily_scores rows with
\* the same vi_trade, vi_content, delta7, acceleration, signal and heat.
C1_RerunIdempotent ==
    \A u1 \in upserts, u2 \in upserts :
        (faults = 0 /\ u1[2].model_id = u2[2].model_id /\ u1[2].date = u2[2].date)
            => \A col \in ScoreColumns : u1[2][col] = u2[2][col]

\* the model ids of the list of this run
RunModels == {models[i].id : i \in 1..Len(models)}

\* C2: an exception while one model is processed in phase 1 or in phase 3
\* never prevents another model from being processed.  The returned details
\* have one entry per active model, in model order, with status ERROR for
\* exactly the models an exception was raised for and OK for the others, and
\* models_calculated is the number of OK entries.
C2_FailureIsolation ==
    pc = "done" =>
        /\ Len(summary.details) = Len(models)
        /\ \A i \in 1..Len(models) :
              /\ summary.details[i].model = models[i].slug
              /\ summary.details[i].status =
                    IF models[i].id \in raised THEN "ERROR" ELSE "OK"
        /\ summary.models_calculated = Cardinality(RunModels \ raised)
        /\ summary.models_total = Len(models)

\* a run that returned with one model failed and another one calculated
C2_Witness ==
    /\ pc = "done"
    /\ \E i \in 1..Len(summary.details), j \in 1..Len(summary.details) :
          /\ i < j
          /\ summary.details[i].status = "ERROR"
          /\ summary.details[j].status = "OK"
    /\ summary.models_calculated = 1

\* C3: run_daily_calculation always completes and returns its summary,
\* whatever storage read or write fails: no run ends with an exception, and
\* a run that has ended has returned {models_calculated, models_total, details}.
C3_AlwaysReturns ==
    /\ pc # "raised"
    /\ pc = "done" =>
          {"models_calculated", "models_total", "details"} \subseteq DOMAIN summary

\* calculate_index has finished, with a result or an error, for every model
Phase1Finished == \A m \in RunModels : m \in DOMAIN phase1_results

\* C4: the batch obeys a phase barrier.  The sparse components and the
\* cross-model scores are computed only in phase 2, which begins only when
\* calculate_index has finished for every model; and no result of a model is
\* overridden, no detail is recorded and no component_scores or daily_scores
\* row is upserted except in phase 3, which is entered only from phase 2 and
\* with a cross-model score table for every sparse component.
C4_PhaseBarrier ==
    [][ /\ (pc' = "phase2" /\ pc # "phase2") => Phase1Finished'
        /\ (cross_scores' # cross_scores \/ sparse_components' # sparse_components)
              => \/ pc = "phase2" /\ Phase1Finished
                 \/ /\ pc \in {"idle", "done", "raised"}
                    /\ cross_scores' = <<>>
                    /\ sparse_components' = {}
        /\ (pc' = "phase3" /\ pc # "phase3")
              => /\ pc = "phase2"
                 /\ DOMAIN cross_scores' = sparse_components'
                 /\ results' = <<>>
        /\ (\/ component_scores' # component_scores
            \/ daily_scores' # daily_scores
            \/ upserts' # upserts
            \/ Len(results') > Len(results)
            \/ \E m \in DOMAIN phase1_results :
                  m \in DOMAIN phase1_results' /\ phase1_results'[m] # phase1_results[m])
              => pc = "phase3"
      ]_vars

\* phase 3 at its second model, after a phase 2 that found sparse components
\* and with component rows of today written
C4_Witness ==
    /\ pc = "phase3"
    /\ idx > 1
    /\ sparse_components # {}
    /\ \E r \in component_scores : r.date = Today
    /\ \E u \in upserts : u[1] = runs

\* C5: cross-model normalization is used only in the short-history regime.
\* The normalized and smoothed values of a model for a component are replaced
\* by the cross-model score only if the model's own combined history for the
\* component has fewer than 7 points.
C5_CrossModelOnlyWhenShort ==
    \A mc \in overridden :
        Len(FetchComponentHistory(raw_metrics, mc[1], mc[2], RawDays)) < 7

\* the models of this run whose phase 1 succeeded, and the first in model order
OkModels == {m \in RunModels : Phase1Ok(phase1_results, m)}
FirstOkPosition ==
    CHOOSE i \in 1..Len(models) :
        /\ models[i].id \in OkModels
        /\ \A j \in 1..(i - 1) : models[j].id \notin OkModels

\* the components of which the first successful model has fewer than 7 points
ExpectedSparse ==
    IF OkModels = {} THEN {}
    ELSE {c \in CompSet :
            Len(HistoriesOf(raw_metrics, models[FirstOkPosition].id)[c]) < 7}

\* the latest raw value of a component of a model, 0 without history
LatestRaw(m, c) ==
    LET h == HistoriesOf(raw_metrics, m)[c]
    IN  IF h = <<>> THEN 0 ELSE h[Len(h)]

\* cross_model_normalize over the latest raw values of the successful models
ExpectedCross(c) == CrossModelNormalize([m \in OkModels |-> LatestRaw(m, c)])

\* C6: a component is sparse exactly when the first model, in model order,
\* whose phase 1 succeeded has fewer than 7 history points for it, and none
\* is when no model succeeded.  Once phase 3 has taken up a successfully
\* computed model, the normalized and the smoothed entry of every sparse
\* component, in its trade and in its content result, is the cross-model
\* score of the latest raw values of all successfully computed models, and
\* the entries of every other component are those of phase 1; the results of
\* a model phase 3 has not reached yet are those of phase 1.
C6_SparseOverride ==
    pc \in {"phase3", "done"} =>
        /\ sparse_components = ExpectedSparse
        /\ \A i \in 1..Len(models) : \A mode \in {"trade", "content"} :
              LET m == models[i].id
                  now == phase1_results[m][mode]
                  p1 == CalculateIndexOf(raw_metrics, m, mode)
              IN  m \in OkModels =>
                    /\ now.components_raw = p1.components_raw
                    /\ \A c \in CompSet :
                          IF c \in ExpectedSparse /\ i < idx
                            THEN /\ now.components_normalized[c] = ExpectedCross(c)[m]
                                 /\ now.components_smoothed[c] = ExpectedCross(c)[m]
                            ELSE /\ now.components_normalized[c] = p1.components_normalized[c]
                                 /\ now.components_smoothed[c] = p1.components_smoothed[c]

\* the first model failed in phase 1, the second decided sparsity: some but
\* not all components are sparse and one of its scores changed in the override
C6_Witness ==
    /\ pc = "done"
    /\ Len(models) >= 2
    /\ models[1].id \notin OkModels
    /\ models[2].id \in OkModels
    /\ sparse_components \notin {{}, CompSet}
    /\ \E c \in sparse_components :
          phase1_results[models[2].id].trade.components_smoothed[c]
             # CalculateIndexOf(raw_metrics, models[2].id, "trade").components_smoothed[c]

\* the weighted sum of the six smoothed values written out, clamped to
\* [0, 100] and rounded to 2 decimals; weights in hundredths
WeightedComposite(w, s) ==
    LET total == w.T * s.T + w.S * s.S + w.G * s.G + w.N * s.N + w.D * s.D + w.M * s.M
        clamped == Max2(0, Min2(100 * Hundred, total))
    IN  100 * RoundHalfEven(clamped, 10000)

WeightsOf(mode) == IF mode = "trade" THEN WEIGHTS_TRADE ELSE WEIGHTS_CONTENT

\* C7: both weight tables are defined on exactly {T,S,G,N,D,M} and sum to 1;
\* every smoothed value, overridden or not, is in [0, 100]; the vi_score of
\* calculate_index is the clamped, rounded weighted sum of its smoothed
\* values; the vi_trade and vi_content of every row the run upserts are the
\* clamped, rounded weighted sums of the (possibly overridden) smoothed
\* values; and all of them are in [0, 100].
C7_CompositeScore ==
    /\ \A mode \in {"trade", "content"} :
          /\ DOMAIN WeightsOf(mode) = CompSet
          /\ WeightedSumFrom(WeightsOf(mode), [c \in CompSet |-> 1], 1) = 100
    /\ \A m \in OkModels : \A mode \in {"trade", "content"} :
          LET now == phase1_results[m][mode]
              p1 == CalculateIndexOf(raw_metrics, m, mode)
          IN  /\ \A c \in CompSet : /\ now.components_smoothed[c] \in 0..Hundred
                                    /\ p1.components_smoothed[c] \in 0..Hundred
              /\ now.vi_score = WeightedComposite(WeightsOf(mode), p1.components_smoothed)
              /\ now.vi_score \in 0..Hundred
    /\ \A u \in upserts :
          u[1] = runs =>
             LET now == phase1_results[u[2].model_id]
             IN  /\ u[2].vi_trade =
                       WeightedComposite(WEIGHTS_TRADE, now.trade.components_smoothed)
                 /\ u[2].vi_content =
                       WeightedComposite(WEIGHTS_CONTENT, now.content.components_smoothed)
    /\ \A r \in daily_scores :
          r.date = Today => r.vi_trade \in 0..Hundred /\ r.vi_content \in 0..Hundred

\* a row upserted by a finished run whose composite lies strictly inside the
\* range and was changed by the override of a sparse component
C7_Witness ==
    /\ pc = "done"
    /\ \E u \in upserts :
          /\ u[1] = runs
          /\ u[2].vi_trade > 0 /\ u[2].vi_trade < Hundred
          /\ \E c \in CompSet : <<u[2].model_id, c>> \in overridden
          /\ u[2].vi_trade # CalculateIndexOf(raw_metrics, u[2].model_id, "trade").vi_score
          /\ u[2].vi_content # u[2].vi_trade

\* the combined history of component c of model m is empty
NoHistory(m, c) == HistoriesOf(raw_metrics, m)[c] = <<>>

\* C8: absence of data reads as zero, never as neutral 50.  A component with
\* an empty combined history gets raw = normalized = smoothed = 0 from
\* calculate_index in both modes, keeps them through the override, and has
\* normalized = smoothed = 0 in the component row persisted for the day; with
\* all six components empty the composite is 0 in the result and in the row.
C8_AbsenceIsZero ==
    /\ \A m \in ModelIds : \A mode \in {"trade", "content"} :
          LET p1 == CalculateIndexOf(raw_metrics, m, mode)
          IN  /\ \A c \in CompSet :
                    NoHistory(m, c) =>
                       /\ p1.components_raw[c] = 0
                       /\ p1.components_normalized[c] = 0
                       /\ p1.components_smoothed[c] = 0
                       /\ m \in OkModels =>
                             /\ phase1_results[m][mode].components_raw[c] = 0
                             /\ phase1_results[m][mode].components_normalized[c] = 0
                             /\ phase1_results[m][mode].components_smoothed[c] = 0
              /\ (\A c \in CompSet : NoHistory(m, c)) => p1.vi_score = 0
    /\ \A r \in component_scores :
          (r.date = Today /\ NoHistory(r.model_id, r.component)) =>
             r.raw_value = 0 /\ r.normalized_value = 0 /\ r.smoothed_value = 0
    /\ \A u \in upserts :
          (\A c \in CompSet : NoHistory(u[2].model_id, c)) =>
             u[2].vi_trade = 0 /\ u[2].vi_content = 0

\* a persisted row of a component without history that was cross-model
\* normalized against a model that has data for it
C8_Witness ==
    \E r \in component_scores :
        /\ r.date = Today
        /\ NoHistory(r.model_id, r.component)
        /\ <<r.model_id, r.component>> \in overridden
        /\ \E m \in OkModels : LatestRaw(m, r.component) > 0
        /\ r.smoothed_value = 0

(***************************************************************************)
(* Properties of the normalizer.                                           *)
(***************************************************************************)
\* the finite values of the window quantile_normalize looks at
NormWindow == FiniteValues(WindowValues(norm_in.values, norm_in.window))

\* C9: quantile_normalize returns a value in [0, 100] for every non-empty
\* history, every target (far outside the range of the history, NaN or
\* infinite), every window size and every history with NaN or infinite
\* elements.
C9_NormalizeInRange ==
    (norm_pc # "start" /\ norm_in.values # <<>>) =>
        /\ norm_out \in 0..Hundred
        /\ norm_out % 100 = 0

\* the quantile branch on a history with a NaN element and an infinite target
C9_Witness ==
    /\ norm_pc = "normalized"
    /\ \E i \in 1..Len(norm_in.values) : norm_in.values[i] = NaN
    /\ Len(NormWindow) >= MinHistory
    /\ norm_in.current_value = PInf
    /\ norm_out = Hundred

NormTarget ==
    IF norm_in.current_value = None THEN Last(norm_in.values) ELSE norm_in.current_value

\* the k-th smallest element of a sequence of integers, found by counting
KthSmallest(w, k) ==
    CHOOSE x \in {w[i] : i \in 1..Len(w)} :
        /\ Cardinality({i \in 1..Len(w) : w[i] < x}) < k
        /\ Cardinality({i \in 1..Len(w) : w[i] <= x}) >= k

\* QDen times the q-quantile (q = qn / QDen) of w, interpolated linearly
\* between the order statistics around the position (n - 1) * q
RefQuantile(w, qn) ==
    LET pos == (Len(w) - 1) * qn
        below == KthSmallest(w, (pos \div QDen) + 1)
        above == KthSmallest(w, Min2((pos \div QDen) + 2, Len(w)))
    IN  below * (QDen - (pos % QDen)) + above * (pos % QDen)

\* QDen times the bounds of the reference scaling: (min, max) of 1 to 6
\* values, the (q_low, q_high) quantiles of 7 or more
RefLow(w) == IF Len(w) < 7 THEN QDen * KthSmallest(w, 1) ELSE RefQuantile(w, QuantileLow)
RefHigh(w) ==
    IF Len(w) < 7 THEN QDen * KthSmallest(w, Len(w)) ELSE RefQuantile(w, QuantileHigh)

\* round(100 * (clip(t, lo, hi) - lo) / (hi - lo), 2) for a target t that is
\* not NaN; lo < hi and the finite t are in units of 1 / QDen
RefScaling(t, lo, hi) ==
    LET clipped == CASE t.k = "pinf" -> hi
                     [] t.k = "ninf" -> lo
                     [] OTHER -> Max2(lo, Min2(hi, QDen * t.v))
    IN  100 * RoundHalfEven(1000000 * (clipped - lo), 100 * (hi - lo))

\* C11: whenever lo < hi, quantile_normalize is the reference scaling
\* round(100 * (clip(target, lo, hi) - lo) / (hi - lo), 2), the bounds taken
\* over the finite values among the last `window` elements: (min, max) of 1
\* to 6 values whatever the length of the history, the (q_low, q_high)
\* quantiles of 7 or more; a target at or above hi scores 100.0 and one at
\* or below lo scores 0.0.  (For a target that is not NaN.)
C11_ReferenceScaling ==
    LET w == NormWindow
        t == NormTarget
    IN  (/\ norm_pc # "start"
         /\ norm_in.values # <<>>
         /\ w # <<>>
         /\ t.k # "nan"
         /\ RefLow(w) < RefHigh(w))
        => /\ norm_out = RefScaling(t, RefLow(w), RefHigh(w))
           /\ (t.k = "pinf" \/ (t.k = "fin" /\ QDen * t.v >= RefHigh(w))) => norm_out = Hundred
           /\ (t.k = "ninf" \/ (t.k = "fin" /\ QDen * t.v <= RefLow(w))) => norm_out = 0

\* seven or more finite values with an outlier above q95: the outlier as the
\* target scores 100.0, clipped to q95 and not to the maximum
C11_Witness ==
    /\ norm_pc = "normalized"
    /\ Len(NormWindow) >= 7
    /\ RefLow(NormWindow) < RefHigh(NormWindow)
    /\ RefHigh(NormWindow) < QDen * KthSmallest(NormWindow, Len(NormWindow))
    /\ NormTarget = Fin(KthSmallest(NormWindow, Len(NormWindow)))
    /\ norm_out = Hundred

(***************************************************************************)
(* Properties of the pure functions.                                       *)
(***************************************************************************)
CrossCalled == call_pc = "called" /\ call_in.fn = "cross_model_normalize"

\* the models of the call with a positive value, and the range of those values
CrossPositive == {k \in DOMAIN call_in.values_by_model : call_in.values_by_model[k] > 0}
CrossMin ==
    CHOOSE x \in {call_in.values_by_model[k] : k \in CrossPositive} :
        \A k \in CrossPositive : x <= call_in.values_by_model[k]
CrossMax ==
    CHOOSE x \in {call_in.values_by_model[k] : k \in CrossPositive} :
        \A k \in CrossPositive : x >= call_in.values_by_model[k]

\* what the first cases of cross_model_normalize give: a score for exactly
\* the input models, 0.0 for a value <= 0, 50.0 for a positive value that is
\* the only one or equal to all the others
CrossDefaults ==
    LET v == call_in.values_by_model
    IN  /\ DOMAIN call_out = DOMAIN v
        /\ \A k \in DOMAIN v : v[k] <= 0 => call_out[k] = 0
        /\ (CrossPositive # {} /\ CrossMin = CrossMax)
              => \A k \in CrossPositive : call_out[k] = Fifty

EwmaCalled == call_pc = "called" /\ call_in.fn = "ewma"

\* every element is finite, and every element after the first has at most 4
\* decimals
FiniteAndRounded(values) ==
    /\ \A i \in 1..Len(values) : IsFinite(values[i])
    /\ \A i \in 2..Len(values) : values[i].v % EwmaUnit = 0

\* C13 as stated: ewma with alpha = 1.0 is the identity for all input
\* sequences.
C13_AlphaOneIdentity ==
    (EwmaCalled /\ call_in.alpha = 100) => call_out.result = call_in.values

\* C13, amended: ewma with alpha = 1.0 is the identity for every sequence of
\* finite values whose elements after the first have at most 4 decimals.
C13_AlphaOneIdentityOnRounded ==
    (EwmaCalled /\ call_in.alpha = 100 /\ FiniteAndRounded(call_in.values))
        => /\ ~call_out.raised
           /\ call_out.result = call_in.values

\* a series of three different finite values, returned as it is
C13_Witness ==
    /\ EwmaCalled
    /\ call_in.alpha = 100
    /\ Len(call_in.values) = 3
    /\ FiniteAndRounded(call_in.values)
    /\ call_in.values[1] # call_in.values[2]
    /\ call_in.values[2] # call_in.values[3]
    /\ call_in.values[1].v % EwmaUnit # 0
    /\ call_out.result = call_in.values

\* C14: ewma rejects an invalid smoothing constant: for every input sequence
\* it fails with an error and returns no result whenever alpha <= 0 or
\* alpha > 1.
C14_RejectsInvalidAlpha ==
    (EwmaCalled /\ (call_in.alpha <= 0 \/ call_in.alpha > 100)) => call_out.raised

\* the positions the incremental computation has reached
Stepped == 1..Len(call_out.single)

\* two floats of the same kind, at most 0.0001 apart when finite
WithinRounding(a, b) ==
    /\ a.k = b.k
    /\ IsFinite(a) =>
         /\ a.v - b.v <= EwmaUnit
         /\ b.v - a.v <= EwmaUnit

\* C15 as stated: starting from prev = values[0], each ewma_single step
\* yields the same value as the batch ewma at that position.
C15_StepwiseEqual ==
    (EwmaCalled /\ ~call_out.raised)
        => \A i \in Stepped : call_out.single[i] = call_out.result[i]

\* C15, amended: each ewma_single step is within 0.0001 of the batch ewma at
\* that position, and is the same value when values[0] is non-finite or has
\* at most 4 decimals.
C15_StepwiseWithinRounding ==
    (EwmaCalled /\ ~call_out.raised)
        => \A i \in Stepped :
             /\ WithinRounding(call_out.single[i], call_out.result[i])
             /\ (~IsFinite(call_in.values[1]) \/ call_in.values[1].v % EwmaUnit = 0)
                    => call_out.single[i] = call_out.result[i]

\* all three steps taken over a series whose second value is not finite,
\* where the batch rounded the carried first value and the steps did not
C15_Witness ==
    /\ EwmaCalled
    /\ Len(call_in.values) = 3
    /\ Len(call_out.single) = 3
    /\ IsFinite(call_in.values[1])
    /\ ~IsFinite(call_in.values[2])
    /\ IsFinite(call_in.values[3])
    /\ call_out.single[2] # call_out.result[2]
    /\ IsFinite(call_out.single[3])

\* s[-k] of Python
FromEnd(s, k) == s[Len(s) + 1 - k]

\* C16: calculate_momentum on an ascending series s returns delta7 = 0.0 and
\* acceleration = 0.0 when len(s) < 8; delta7 = round(s[-1] - s[-8], 2) and
\* acceleration = 0.0 when 8 <= len(s) < 15; delta7 = round(s[-1] - s[-8], 2)
\* and acceleration = round((s[-1] - s[-8]) - (s[-8] - s[-15]), 2) when
\* len(s) >= 15; elements older than s[-15] never affect the result.
C16_Momentum ==
    (call_pc = "called" /\ call_in.fn = "calculate_momentum") =>
        LET s == call_in.scores
            n == Len(s)
        IN  /\ n < 8 => call_out = [delta7 |-> 0, acceleration |-> 0]
            /\ (8 <= n /\ n < 15) =>
                 call_out = [delta7 |-> Round2(FromEnd(s, 1) - FromEnd(s, 8)),
                             acceleration |-> 0]
            /\ n >= 15 =>
                 /\ call_out.delta7 = Round2(FromEnd(s, 1) - FromEnd(s, 8))
                 /\ call_out.acceleration =
                      Round2((FromEnd(s, 1) - FromEnd(s, 8))
                             - (FromEnd(s, 8) - FromEnd(s, 15)))
                 /\ \A t \in MomentumCalls :
                      (/\ Len(t.scores) >= 15
                       /\ \A k \in 1..15 : FromEnd(t.scores, k) = FromEnd(s, k))
                          => CalculateMomentum(t.scores) = call_out

\* a series of 16 scores whose momentum and acceleration are both non-zero,
\* unrounded to 2 decimals before the call, with s[-16] different from s[-15]
C16_Witness ==
    /\ call_pc = "called"
    /\ call_in.fn = "calculate_momentum"
    /\ Len(call_in.scores) = 16
    /\ call_in.scores[1] # call_in.scores[2]
    /\ call_out.delta7 # 0
    /\ call_out.acceleration # 0
    /\ call_out.delta7 # FromEnd(call_in.scores, 1) - FromEnd(call_in.scores, 8)

\* x clamped to [-m, m], x in ten-thousandths and m a whole number
ClampAbs(x, m) ==
    IF x < 0 - m * 10000 THEN 0 - m * 10000
    ELSE IF x > m * 10000 THEN m * 10000 ELSE x

\* 300 * (0.60*vi + 0.25*nm(delta7,50) + 0.15*nm(acceleration,30)), where
\* nm(x,m) = 50 + 50 * clamp(x)/m: 3 * nm(x,30) = 150 + 5 * clamp(x)
RefSignal300(vi, delta7, acceleration) ==
    180 * vi + 75 * (Fifty + ClampAbs(delta7, 50))
             + 15 * (3 * Fifty + 5 * ClampAbs(acceleration, 30))

\* 2 * (0.50*vi + 0.50*nm(delta7,50))
RefHeat2(vi, delta7) == vi + Fifty + ClampAbs(delta7, 50)

SignalCalled == call_pc = "called" /\ call_in.fn = "calculate_signal_trade"
HeatCalled == call_pc = "called" /\ call_in.fn = "calculate_heat_content"

\* C17 as stated: the signal and the heat are the weighted sums themselves,
\* both lie in [0,100], and raising vi_content from 0 to 100 raises the heat
\* by exactly 50.
C17_SignalHeatExact ==
    /\ SignalCalled =>
         /\ 300 * call_out.signal
              = RefSignal300(call_in.vi_trade, call_in.delta7, call_in.acceleration)
         /\ call_out.signal \in 0..Hundred
    /\ HeatCalled =>
         /\ 2 * call_out.heat = RefHeat2(call_in.vi_content, call_in.delta7)
         /\ call_out.heat \in 0..Hundred
         /\ call_out.heat100 - call_out.heat0 = Fifty

\* d is a whole number of hundredths no further than 0.005 from num / den
NearestHundredth(d, num, den) ==
    /\ d % 100 = 0
    /\ den * d - num <= 50 * den
    /\ num - den * d <= 50 * den

\* C17, amended: the signal and the heat are the weighted sums rounded to 2
\* decimals, both lie in [0,100], and raising vi_content from 0 to 100 raises
\* the heat by 49.99, 50.00 or 50.01.
C17_SignalHeatRounded ==
    /\ SignalCalled =>
         /\ NearestHundredth(call_out.signal,
                RefSignal300(call_in.vi_trade, call_in.delta7, call_in.acceleration),
                300)
         /\ call_out.signal \in 0..Hundred
    /\ HeatCalled =>
         /\ NearestHundredth(call_out.heat,
                RefHeat2(call_in.vi_content, call_in.delta7), 2)
         /\ call_out.heat \in 0..Hundred
         /\ call_out.heat100 - call_out.heat0 \in {Fifty - 100, Fifty, Fifty + 100}

\* a signal for a momentum and an acceleration beyond their clamps, whose
\* weighted sum has more than 2 decimals
C17_Witness ==
    /\ SignalCalled
    /\ call_in.delta7 > 500000
    /\ call_in.acceleration < -300000
    /\ call_in.vi_trade \in {100, 333300}
    /\ 300 * call_out.signal
         # RefSignal300(call_in.vi_trade, call_in.delta7, call_in.acceleration)

DivergenceCalled == call_pc = "called" /\ call_in.fn = "detect_divergence"

\* fewer than 8 points, or fewer than 3 delta7 points (n - 7 of them)
TooShort(rows) == Len(rows) < 8 \/ Len(rows) - 7 < 3

HasMissingValue(daily_rows) ==
    \E i \in 1..Len(daily_rows) : daily_rows[i].vi_trade = None

\* C18: detect_divergence returns None, and never raises, for every input in
\* which the trade-composite history or the D raw-metric history is short,
\* empty or has missing values: in particular whenever either series has
\* fewer than 8 points, or fewer than 3 delta7 points can be formed from it.
C18_DivergenceNoneOnShortOrMissing ==
    (/\ DivergenceCalled
     /\ \/ TooShort(call_in.daily_rows)
        \/ TooShort(call_in.d_rows)
        \/ HasMissingValue(call_in.daily_rows))
        => call_out = NoSignal

BreakoutCalled == call_pc = "called" /\ call_in.fn = "detect_momentum_breakout"

\* the value of a column that is present, as a number strictly above x
Above(col, x) == col # None /\ col.v > x * 10000

\* the thresholds the claim gives for a number of rows
ClaimedViThreshold(n) == IF n >= 14 THEN 70 ELSE IF n >= 7 THEN 65 ELSE 60
ClaimedDeltaThreshold(n) == IF n >= 14 THEN 15 ELSE IF n >= 7 THEN 10 ELSE 5

\* C19: detect_momentum_breakout emits a signal only if the model has at
\* least 3 composite rows and its latest row has vi_trade > vi_threshold,
\* delta7_trade > delta_threshold and accel_trade > 0, with the thresholds
\* (70,15) for 14 or more rows, (65,10) for 7 to 13, (60,5) otherwise; it
\* never fires when accel_trade <= 0 or is missing.
C19_BreakoutOnlyAboveThresholds ==
    (BreakoutCalled /\ call_out.kind = "signal") =>
        LET n == Len(call_in.daily_rows)
            latest == call_in.daily_rows[n]
        IN  /\ n >= 3
            /\ Above(latest.vi_trade, ClaimedViThreshold(n))
            /\ Above(latest.delta7_trade, ClaimedDeltaThreshold(n))
            /\ Above(latest.accel_trade, 0)

\* a signal emitted from 14 rows whose latest row is just above the
\* thresholds 70 and 15, with an acceleration just above 0
C19_Witness ==
    /\ BreakoutCalled
    /\ call_out.kind = "signal"
    /\ Len(call_in.daily_rows) = 14
    /\ call_in.daily_rows[14].vi_trade = Fin(700100)
    /\ call_in.daily_rows[14].delta7_trade = Fin(150100)
    /\ call_in.daily_rows[14].accel_trade = Fin(100)

AdoptionCalled == call_pc = "called" /\ call_in.fn = "detect_adoption_backed"

\* C20: detect_adoption_backed emits a signal only if the model has at least
\* one composite row and the latest delta7_trade > 0; the smoothed D score
\* of the date exists and is strictly above the threshold (65 when 7 or more
\* rows are available, else 50); the smoothed G score of the date exists; and
\* the smoothed G score of date - 7 is absent or strictly below today's.
C20_AdoptionOnlyWhenBacked ==
    (AdoptionCalled /\ call_out.kind = "signal") =>
        LET n == Len(call_in.daily_rows)
        IN  /\ n >= 1
            /\ Above(call_in.daily_rows[n].delta7_trade, 0)
            /\ Above(call_in.d_score, IF n >= 7 THEN 65 ELSE 50)
            /\ call_in.g_score # None
            /\ \/ call_in.g_prev = None
               \/ call_in.g_prev.v < call_in.g_score.v

\* a signal emitted from 7 rows with a D score just above 65 and a G score
\* that grew over the 7 days
C20_Witness ==
    /\ AdoptionCalled
    /\ call_out.kind = "signal"
    /\ Len(call_in.daily_rows) = 7
    /\ call_in.d_score = Fin(650100)
    /\ call_in.g_prev # None
    /\ call_in.g_score # None


\* the vi/delta7/accel thresholds pass for the latest of at least 3 rows
ThresholdsPass(daily_rows) ==
    LET n == Len(daily_rows)
    IN  /\ n >= 3
        /\ Above(daily_rows[n].vi_trade, ClaimedViThreshold(n))
        /\ Above(daily_rows[n].delta7_trade, ClaimedDeltaThreshold(n))
        /\ Above(daily_rows[n].accel_trade, 0)

\* growth of at least 10% of the earliest value (a baseline <= 0 counts as 1)
\* from d[from] to d[to]; no growth with fewer than 2 points
GrewFromTo(d, from, to) ==
    /\ Len(d) >= 2
    /\ 100 * (d[to] - d[from]) >= 10 * (IF d[1] > 0 THEN d[1] ELSE 1)

\* C24 as stated: with the thresholds passed, the signal is suppressed
\* exactly when D grew by 10% or more, measured first-vs-last over the first
\* 8 points when there are 8 or more, else over all points; otherwise it is
\* emitted with expiry date + 5 days.
C24_GrowthOverFirstEight ==
    (BreakoutCalled /\ ThresholdsPass(call_in.daily_rows)) =>
        LET d == call_in.d_rows
        IN  IF GrewFromTo(d, 1, IF Len(d) >= 8 THEN 8 ELSE Len(d))
              THEN call_out = NoSignal
              ELSE call_out.kind = "signal" /\ call_out.expires_at = Today + 5

\* C24, amended: the growth is measured from the 8th point from the end to
\* the last point when there are 8 or more points.
C24_GrowthOverLastEight ==
    (BreakoutCalled /\ ThresholdsPass(call_in.daily_rows)) =>
        LET d == call_in.d_rows
        IN  IF GrewFromTo(d, IF Len(d) >= 8 THEN Len(d) - 7 ELSE 1, Len(d))
              THEN call_out = NoSignal
              ELSE call_out.kind = "signal" /\ call_out.expires_at = Today + 5

\* thresholds passed with 9 D points that grew by 20% over the last 8 only:
\* the signal is suppressed
C24_Witness ==
    /\ BreakoutCalled
    /\ ThresholdsPass(call_in.daily_rows)
    /\ Len(call_in.d_rows) = 9
    /\ call_in.d_rows[8] = call_in.d_rows[1]
    /\ call_in.d_rows[9] > call_in.d_rows[2]
    /\ call_out = NoSignal


\* C26: for every input sequence and alpha in (0,1], the output of ewma has
\* the length of the input, a non-finite element contributes nothing (the
\* previous smoothed value is carried forward, to 4 decimals), and every
\* output element at the position of a finite input element is finite.
C26_NonFiniteNeitherBreaksNorSkews ==
    (EwmaCalled /\ AlphaValid(call_in.alpha)) =>
        LET values == call_in.values
            result == call_out.result
        IN  /\ ~call_out.raised
            /\ Len(result) = Len(values)
            /\ \A i \in 2..Len(values) :
                 ~IsFinite(values[i]) => result[i] = Round4(result[i - 1], EwmaUnit)
            /\ \A i \in 1..Len(values) :
                 IsFinite(values[i]) => IsFinite(result[i])

\* C27: a window below 1 is rejected by every operation that takes one:
\* quantile_normalize and normalize_batch never return a score, and
\* moving_average never returns a series, when window < 1.
C27_WindowBelowOneRejected ==
    norm_in.window < 1 =>
        /\ norm_pc \notin {"normalized", "batched", "averaged"}
        /\ norm_pc = "averaged" => ma_out.raised

\* what does hold for moving_average: window < 1 is rejected for every
\* non-empty input, and an empty input returns the empty series
C27_MovingAverageRejectsNonEmpty ==
    (norm_pc = "averaged" /\ norm_in.window < 1) =>
        /\ ma_out.raised <=> norm_in.values # <<>>
        /\ norm_in.values = <<>> => ma_out.result = <<>>

\* normalize_batch returned scores for a non-empty history and a window below 1
C27_ScoreReturned ==
    /\ norm_pc = "batched"
    /\ norm_in.window < 1
    /\ norm_in.values # <<>>

\* moving_average returned a series for a window below 1
C27_EmptySeriesReturned ==
    /\ norm_pc = "averaged"
    /\ norm_in.window < 1
    /\ ~ma_out.raised

\* the stored composite rows of the model of row r dated k days before it
RowsBefore(r, k) ==
    {x \in daily_scores : x.model_id = r.model_id /\ x.date = r.date - k}

\* the momentum columns of row r are 0 or taken from the rows dated 7 and 14
\* days before it
CalendarLag(r, vi, delta7, accel) ==
    /\ RowsBefore(r, 7) = {} => r[delta7] = 0
    /\ \A a \in RowsBefore(r, 7) :
          /\ r[delta7] \in {0, Round2(r[vi] - a[vi])}
          /\ \A b \in RowsBefore(r, 14) :
                r[accel] \in {0, Round2((r[vi] - a[vi]) - (a[vi] - b[vi]))}
    /\ (RowsBefore(r, 7) = {} \/ RowsBefore(r, 14) = {}) => r[accel] = 0

\* C28: the momentum persisted by run_daily_calculation is a true 7-day lag:
\* for every stored history, with or without missing days, the delta7 of the
\* row of the day is 0 for insufficient history or the score of the day minus
\* the score stored for the date 7 days earlier, and the acceleration likewise
\* uses the rows dated 7 and 14 days earlier; for trade and for content.
C28_TrueSevenDayLag ==
    \A r \in daily_scores :
        r.date = Today =>
            /\ CalendarLag(r, "vi_trade", "delta7_trade", "accel_trade")
            /\ CalendarLag(r, "vi_content", "delta7_content", "accel_content")

\* the same statement for a first run over a history without a missing day
C28_LagWithoutMissingDays ==
    (/\ runs = 1
     /\ \A r \in daily_scores : \A x \in daily_scores :
            x.model_id = r.model_id =>
                \A k \in 1..(r.date - x.date) : RowsBefore(r, k) # {})
        => C28_TrueSevenDayLag

\* the component_scores rows of the model and date of the composite row r
ComponentRowsOf(r) ==
    {c \in component_scores : c.model_id = r.model_id /\ c.date = r.date}

\* the smoothed values of those rows, by component
SmoothedOf(r) ==
    [c \in CompSet |-> (CHOOSE x \in ComponentRowsOf(r) : x.component = c).smoothed_value]

\* C30: persisted component and composite rows stay mutually consistent:
\* after any runs with any failures, every composite row of the day has six
\* component rows, its vi_trade is the clamped, rounded trade-weighted sum of
\* their smoothed values and its component_breakdown holds those six values.
C30_ComponentsMatchComposite ==
    \A r \in daily_scores :
        r.date = Today =>
            /\ {c.component : c \in ComponentRowsOf(r)} = CompSet
            /\ r.vi_trade = WeightedComposite(WEIGHTS_TRADE, SmoothedOf(r))
            /\ r.component_breakdown = SmoothedOf(r)

\* the same statement for the first run of the day
C30_ConsistentInFirstRun ==
    runs <= 1 => C30_ComponentsMatchComposite

\* the two z-scores of a call of detect_divergence with enough history
ZVi(daily_rows) ==
    ZScore(Delta7Series([i \in 1..Len(daily_rows) |-> daily_rows[i].vi_trade.v]))
ZD(d_rows) == ZScore(Delta7Series(d_rows))

\* s hundredths is abs(z_vi - z_d) * 33.3 clamped to [0, 100] and rounded to
\* 2 decimals: it is within half a hundredth of the clamped product
IsStrengthOf(s, z_vi, z_d) ==
    /\ s \in 0..10000
    /\ DivergenceCmp(Divergence(z_vi, z_d, 6660), 2 * s - 1) >= 0
    /\ s < 10000 => DivergenceCmp(Divergence(z_vi, z_d, 6660), 2 * s + 1) <= 0

\* given enough history, detect_divergence emits a signal if and only if
\* |z_vi - z_d| > 1.5; the signal is bullish exactly when the divergence is
\* positive and bearish otherwise, expires at date + 7 days and has strength
\* clamp(|divergence| * 33.3, 0, 100) rounded to 2 decimals
DivergenceAsClaimed ==
    (/\ DivergenceCalled
     /\ ~TooShort(call_in.daily_rows)
     /\ ~TooShort(call_in.d_rows)
     /\ ~HasMissingValue(call_in.daily_rows)) =>
        LET z_vi == ZVi(call_in.daily_rows)
            z_d == ZD(call_in.d_rows)
        IN  /\ call_out.kind \in {"none", "signal"}
            /\ call_out.kind = "signal" <=> DivergenceCmp(Divergence(z_vi, z_d, 2), 3) = 1
            /\ call_out.kind = "signal" =>
                  /\ call_out.signal_type = "divergence"
                  /\ call_out.direction =
                        (IF GtRoots(z_vi.a, z_d.v, z_d.a, z_vi.v)
                           THEN "bullish" ELSE "bearish")
                  /\ call_out.expires_at = Today + 7
                  /\ IsStrengthOf(call_out.strength, z_vi, z_d)

\* the strength of a divergence of num/den, num and den whole numbers
StrengthAt(num, den) ==
    DivergenceStrength([a |-> num, v |-> den * den], [a |-> 0, v |-> 1])

\* C25 as stated: the detector is as claimed and the strength maps a
\* divergence of 1.5 to 50 and of 3.0 to 100.
C25_DivergenceMapsTo50And100 ==
    /\ DivergenceAsClaimed
    /\ (DivergenceCalled /\ call_out.kind = "signal") =>
          StrengthAt(3, 2) = 5000 /\ StrengthAt(3, 1) = 10000

\* C25, amended: given enough history, detect_divergence emits a signal if
\* and only if |z_vi - z_d| > 1.5, bullish exactly when the divergence is
\* positive and bearish otherwise, expiring at date + 7 days, with strength
\* clamp(|divergence| * 33.3, 0, 100) rounded to 2 decimals, which maps a
\* divergence of 1.5 to 49.95 and of 3.0 to 99.9.
C25_DivergenceMapsTo4995And9990 ==
    /\ DivergenceAsClaimed
    /\ (DivergenceCalled /\ call_out.kind = "signal") =>
          StrengthAt(3, 2) = 4995 /\ StrengthAt(3, 1) = 9990

\* a bearish signal of a strength below the cap
C25_Witness ==
    /\ DivergenceCalled
    /\ call_out.kind = "signal"
    /\ call_out.direction = "bearish"
    /\ call_out.strength > 5000
    /\ call_out.strength < 10000

\* a call with enough history and two different z-scores that emits nothing
C25_WitnessBelowThreshold ==
    /\ DivergenceCalled
    /\ ~TooShort(call_in.daily_rows)
    /\ ~TooShort(call_in.d_rows)
    /\ ~HasMissingValue(call_in.daily_rows)
    /\ call_out = NoSignal
    /\ DivergenceCmp(Divergence(ZVi(call_in.daily_rows), ZD(call_in.d_rows), 1), 1) = 1

\* the detector calls of a full run: every detector once for every model, in
\* the order of the models
ExpectedCalls ==
    [p \in 1..(Len(sig_models) * Len(Detectors)) |->
        [model_id |-> sig_models[((p - 1) \div Len(Detectors)) + 1].id,
         detector |-> Detectors[((p - 1) % Len(Detectors)) + 1]]]

CallsMade ==
    [p \in 1..Len(invoked) |->
        [model_id |-> invoked[p].model_id, detector |-> invoked[p].detector]]

\* C21: run_signal_detection invokes each of the three detectors exactly once
\* for every active model: an exception raised by a detector call or by the
\* upsert of its signal never prevents the remaining detectors of that model
\* or of a later model from being invoked, and the function still returns
\* its list.  The calls made are always the first calls of a full run, the
\* run goes on after every call, the returned run has made them all, and no
\* run ends in an exception once the models were read.
C21_EachDetectorInvokedOnce ==
    /\ sig_pc \in {"loop", "returned"} =>
          /\ Len(invoked) <= Len(ExpectedCalls)
          /\ CallsMade = SubSeq(ExpectedCalls, 1, Len(invoked))
    /\ sig_pc = "loop" =>
          /\ Len(invoked) < Len(ExpectedCalls)
          /\ Len(invoked) = (sig_i - 1) * Len(Detectors) + (sig_j - 1)
    /\ sig_pc = "returned" =>
          /\ CallsMade = ExpectedCalls
          /\ all_signals \in Seq({invoked[p].signal :
                                     p \in {q \in 1..Len(invoked) :
                                               "signal" \in DOMAIN invoked[q]}})
    /\ sig_pc = "raised" => invoked = <<>> /\ sig_models = <<>>

\* a returned run in which a detector call raised and an upsert raised, each
\* followed by a call for the same model that produced an upserted signal
C21_Witness ==
    /\ sig_pc = "returned"
    /\ \E p, q \in 1..Len(invoked) :
          /\ invoked[p].outcome = "raised"
          /\ invoked[q].outcome = "upsert raised"
          /\ \E r \in (p + 1)..Len(invoked) :
                /\ invoked[r].model_id = invoked[p].model_id
                /\ invoked[r].outcome = "upserted"
          /\ \E r \in (q + 1)..Len(invoked) :
                /\ invoked[r].model_id = invoked[q].model_id
                /\ invoked[r].outcome = "upserted"

\* C22: every failure of the signal-detection batch is accounted for in its
\* result: whenever a detector call for a model raised, the returned result
\* contains a failed entry identifying that model and detector.
C22_FailuresAccounted ==
    sig_pc = "returned" =>
        \A p \in 1..Len(invoked) :
            invoked[p].outcome = "raised" =>
                \E k \in 1..Len(all_signals) :
                    /\ all_signals[k].model_id = invoked[p].model_id
                    /\ all_signals[k].kind = "failed"

\* the signals of the calls of the run with one of the given outcomes, in
\* call order
RECURSIVE SignalsOf(_, _)
SignalsOf(calls, outcomes) ==
    IF calls = <<>> THEN <<>>
    ELSE (IF Head(calls).outcome \in outcomes THEN <<Head(calls).signal>> ELSE <<>>)
            \o SignalsOf(Tail(calls), outcomes)

C29_SignalFromOwnDate ==
    \A s \in signals :
        s.signal_type \in {"momentum_breakout", "adoption_backed"} =>
            \E i \in 1..Len(sig_store[s.model_id].daily_rows) :
                LET r == sig_store[s.model_id].daily_rows[i]
                IN  /\ r.date = s.date
                    /\ r.vi_trade = Fin(s.vi_trade)

\* the same statement for the models that have a row for the day
C29_FromOwnDateWhenRowExists ==
    \A s \in signals :
        (/\ s.signal_type \in {"momentum_breakout", "adoption_backed"}
         /\ Last(sig_store[s.model_id].daily_rows).date = s.date) =>
            Last(sig_store[s.model_id].daily_rows).vi_trade = Fin(s.vi_trade)

=============================================================================
